---- MODULE Spec2Model ----
(***************************************************************************)
(* Web discovery and content-extraction pipeline of the interview prep     *)
(* agent: URL validators (utils/validators.py), the site-map prober and    *)
(* the scrape engine (tools/firecrawl.py) and the discovery planner        *)
(* (agents/discovery.py).  Python strings are TLA+ strings; a Python list  *)
(* is a sequence; a Python value of another kind is a tagged record.       *)
(***************************************************************************)
EXTENDS Integers, Sequences, FiniteSets, TLC

(***************************************************************************)
(* String primitives (Python str methods used by the code).                *)
(***************************************************************************)
LowerAlpha == "abcdefghijklmnopqrstuvwxyz"
UpperAlpha == "ABCDEFGHIJKLMNOPQRSTUVWXYZ"
Digits == "0123456789"

CharAt(s, i) == SubSeq(s, i, i)

\* the characters of a string, as a set
CharSet(chars) == {CharAt(chars, i) : i \in 1..Len(chars)}

StartsWith(s, p) == Len(s) >= Len(p) /\ SubSeq(s, 1, Len(p)) = p

DropPrefix(s, n) == SubSeq(s, n + 1, Len(s))

\* Python: k in s
Contains(s, k) == \E i \in 1..(Len(s) - Len(k) + 1) : SubSeq(s, i, i + Len(k) - 1) = k

RECURSIVE FindFrom(_, _, _)
FindFrom(s, chars, i) ==
    IF i > Len(s) THEN Len(s) + 1
    ELSE IF CharAt(s, i) \in chars THEN i
    ELSE FindFrom(s, chars, i + 1)

\* the index of the first character of s that is in chars, 1-based; Len(s)+1 when absent
FindAny(s, chars) == FindFrom(s, chars, 1)

UpperSet == CharSet(UpperAlpha)
LowerOf == [c \in UpperSet |-> CharAt(LowerAlpha, CHOOSE i \in 1..Len(UpperAlpha) : CharAt(UpperAlpha, i) = c)]

LowerChar(c) == IF c \in UpperSet THEN LowerOf[c] ELSE c

RECURSIVE LowerStr(_)
\* Python: s.lower()
LowerStr(s) == IF s = "" THEN "" ELSE LowerChar(Head(s)) \o LowerStr(Tail(s))

RECURSIVE KeepChars(_, _)
\* Python: re.sub("[^chars]", "", s)
KeepChars(s, chars) ==
    IF s = "" THEN ""
    ELSE (IF Head(s) \in chars THEN Head(s) ELSE "") \o KeepChars(Tail(s), chars)

RECURSIVE LStrip(_, _)
LStrip(s, chars) ==
    IF s # "" /\ Head(s) \in chars THEN LStrip(Tail(s), chars) ELSE s

RECURSIVE RStrip(_, _)
RStrip(s, chars) ==
    IF s # "" /\ CharAt(s, Len(s)) \in chars
    THEN RStrip(SubSeq(s, 1, Len(s) - 1), chars) ELSE s

\* Python: s.strip(chars); s.strip() strips white space
StripChars(s, chars) == RStrip(LStrip(s, chars), chars)
Whitespace == {" ", "\t", "\n", "\r"}
Strip(s) == StripChars(s, Whitespace)

RECURSIVE Replace(_, _, _)
\* Python: s.replace(old, new), old non-empty
Replace(s, old, new) ==
    IF Len(s) < Len(old) THEN s
    ELSE IF StartsWith(s, old) THEN new \o Replace(DropPrefix(s, Len(old)), old, new)
    ELSE Head(s) \o Replace(Tail(s), old, new)

RECURSIVE LastSegment(_)
\* Python: s.split("/")[-1]
LastSegment(s) ==
    IF s = "" \/ CharAt(s, Len(s)) = "/" THEN ""
    ELSE LastSegment(SubSeq(s, 1, Len(s) - 1)) \o CharAt(s, Len(s))

(***************************************************************************)
(* urllib.parse as the validators use it.  Every string handed to          *)
(* urlparse here starts with a scheme and "//" or is empty.  An operator   *)
(* that needs an intermediate value several times takes it as a parameter. *)
(***************************************************************************)
\* urlsplit: "scheme:" ends at the first ":" when no "/", "?" or "#" comes before it
HasSchemeAt(s, c) == c <= Len(s) /\ c > 1 /\ CharAt(s, c) = ":"
SchemeAt(s, c) == IF HasSchemeAt(s, c) THEN LowerStr(SubSeq(s, 1, c - 1)) ELSE ""
AfterSchemeAt(s, c) == IF HasSchemeAt(s, c) THEN DropPrefix(s, c) ELSE s

SchemeOf(s) == SchemeAt(s, FindAny(s, {":", "/", "?", "#"}))
AfterScheme(s) == AfterSchemeAt(s, FindAny(s, {":", "/", "?", "#"}))

\* urlsplit: after "//" the netloc runs to the first of "/?#"
UpToDelim(t) == SubSeq(t, 1, FindAny(t, {"/", "?", "#"}) - 1)
FromDelim(t) == DropPrefix(t, FindAny(t, {"/", "?", "#"}) - 1)
NetlocOfRest(r) == IF StartsWith(r, "//") THEN UpToDelim(DropPrefix(r, 2)) ELSE ""
AfterNetlocRest(r) == IF StartsWith(r, "//") THEN FromDelim(DropPrefix(r, 2)) ELSE r

HasNetloc(s) == StartsWith(AfterScheme(s), "//")
NetlocOf(s) == NetlocOfRest(AfterScheme(s))
AfterNetloc(s) == AfterNetlocRest(AfterScheme(s))

\* urlparse: path without "#fragment", "?query" and the ";params" of its last segment
BeforeQuery(r) == SubSeq(r, 1, FindAny(r, {"?", "#"}) - 1)
CutAt(full, last, semi) ==
    IF semi <= Len(last) THEN SubSeq(full, 1, Len(full) - Len(last) + semi - 1) ELSE full
CutParams(full, last) == CutAt(full, last, FindAny(last, {";"}))
StripParams(full) == CutParams(full, LastSegment(full))

PathOf(s) == StripParams(BeforeQuery(AfterNetloc(s)))

\* urlsplit raises ValueError("Invalid IPv6 URL") on an unbalanced bracket
UnbalancedBracket(n) ==
    (Contains(n, "[") /\ ~Contains(n, "]")) \/ (Contains(n, "]") /\ ~Contains(n, "["))
ParseFails(s) == UnbalancedBracket(NetlocOf(s))

\* urlunparse(("https", netloc, path, "", "", ""))
UrlUnparse(netloc, path) ==
    IF netloc # "" \/ ~StartsWith(path, "//")
    THEN "https:" \o "//" \o netloc \o (IF path # "" /\ ~StartsWith(path, "/") THEN "/" ELSE "") \o path
    ELSE "https:" \o path

\* urljoin(base, u) for u that starts with a single "/": scheme and netloc of base, then u
UrlJoinRooted(base, u) ==
    IF SchemeOf(base) = "" THEN u
    ELSE SchemeOf(base) \o ":" \o (IF HasNetloc(base) THEN "//" \o NetlocOf(base) ELSE "") \o u

(***************************************************************************)
(* utils/validators.py                                                     *)
(***************************************************************************)
HostChars == CharSet(LowerAlpha \o UpperAlpha \o Digits \o ".-")
Letters == CharSet(LowerAlpha \o UpperAlpha)
SafePathChars == CharSet(LowerAlpha \o UpperAlpha \o Digits \o "_./-")
UnsafeChars == {" ", "\\", "\"", "'"}

AllIn(s, chars) == \A i \in 1..Len(s) : CharAt(s, i) \in chars

\* _DOMAIN_RE = ^[a-zA-Z0-9.-]+\.[a-zA-Z]{2,}$
DomainReMatch(d) ==
    \E i \in 2..(Len(d) - 2) :
        /\ CharAt(d, i) = "."
        /\ AllIn(SubSeq(d, 1, i - 1), HostChars)
        /\ AllIn(SubSeq(d, i + 1, Len(d)), Letters)

\* line 16: the grammar, and no space, backslash or quote
SafeHost(d) == DomainReMatch(d) /\ ~(\E i \in 1..Len(d) : CharAt(d, i) \in UnsafeChars)

\* lines 10-16 on the stripped, lower-cased input
SafeLowered(d0) ==
    IF StartsWith(d0, "http://") \/ StartsWith(d0, "https://")
    THEN ~ParseFails(d0) /\ SafeHost(NetlocOf(d0))
    ELSE SafeHost(d0)

is_safe_domain(domain) == SafeLowered(LowerStr(Strip(domain)))

\* faulty variant of EnsureStripped: an http:// prefix is not rewritten
EnsureStrippedNoRewrite(s) ==
    IF s = "" THEN s
    ELSE IF ~StartsWith(s, "https://") THEN "https://" \o s
    ELSE s

\* lines 21-28 on the stripped input
EnsureStripped(s) ==
    IF s = "" THEN s
    ELSE IF StartsWith(s, "http://") THEN "https://" \o DropPrefix(s, Len("http://"))
    ELSE IF ~StartsWith(s, "https://") THEN "https://" \o s
    ELSE s

ensure_https(url_or_domain) == EnsureStripped(Strip(url_or_domain))

\* p.path or "/"
OrSlash(path) == IF path = "" THEN "/" ELSE path

\* lines 33-40 on s = ensure_https(url_or_domain)
SanitizeHttps(s) ==
    IF ParseFails(s) THEN s
    ELSE UrlUnparse(LowerStr(NetlocOf(s)), KeepChars(OrSlash(PathOf(s)), SafePathChars))

sanitize_url(url_or_domain) == SanitizeHttps(ensure_https(url_or_domain))

(***************************************************************************)
(* Python values that are not plain strings.  A value of a mapping field   *)
(* is [t, v]: t = "str" with the string v, t = "none" for an absent field  *)
(* or None, t = "int" for a truthy value of another type.                  *)
(***************************************************************************)
Str(s) == [t |-> "str", v |-> s]
None == [t |-> "none", v |-> ""]
Num == [t |-> "int", v |-> ""]

IsStr(val) == val.t = "str"
\* Python truthiness, as "a or b" uses it
Truthy(val) == (val.t = "str" /\ val.v # "") \/ val.t = "int"
\* Python: a or b
Or(a, b) == IF Truthy(a) THEN a ELSE b

Min(a, b) == IF a <= b THEN a ELSE b
\* Python: seq[:n]
Take(seq, n) == SubSeq(seq, 1, Min(n, Len(seq)))

SeqToSet(seq) == {seq[i] : i \in 1..Len(seq)}

RECURSIVE DedupLoop(_, _, _)
\* for u in urls: if u not in seen: seen.add(u); deduped.append(u)
DedupLoop(urls, seen, deduped) ==
    IF urls = <<>> THEN deduped
    ELSE IF Head(urls) \in seen THEN DedupLoop(Tail(urls), seen, deduped)
    ELSE DedupLoop(Tail(urls), seen \cup {Head(urls)}, Append(deduped, Head(urls)))

Dedup(urls) == DedupLoop(urls, {}, <<>>)

(***************************************************************************)
(* tools/firecrawl.py: FirecrawlTool.find_candidate_urls                   *)
(***************************************************************************)
KEY_PAGES ==
    << "about", "about-us", "our-story", "company", "team", "people", "leadership",
       "careers", "jobs", "culture", "values", "mission" >>

MapCap == 8

\* any(k in lu for k in KEY_PAGES)
HasKeyPage(lu) == \E k \in 1..Len(KEY_PAGES) : Contains(lu, KEY_PAGES[k])

\* faulty variant of SeedsFrom: only the homepage is seeded
SeedsFromHomeOnly(domain_base) == <<domain_base>>

\* urls = [domain_base, *[f"{domain_base}/{p}" for p in KEY_PAGES]]
SeedsFrom(domain_base) ==
    <<domain_base>> \o [i \in 1..Len(KEY_PAGES) |-> domain_base \o "/" \o KEY_PAGES[i]]

SeedUrls(domain) == SeedsFrom(ensure_https(domain))

(* A MapWebsite payload is [t, links, data]: t = "dict" for a mapping whose  *)
(* links and data fields are [isList, items]; any other t is a non-mapping.  *)
(* A map item is [t, v]: "str" the string v, "dict" a mapping whose url field*)
(* is the string v, "other" anything else.                                   *)
NoList == [isList |-> FALSE, items |-> <<>>]
List(items) == [isList |-> TRUE, items |-> items]

MapItemsOf(payload) ==
    IF payload.t # "dict" THEN <<>>
    ELSE IF payload.links.isList THEN payload.links.items
    ELSE IF payload.data.isList THEN payload.data.items
    ELSE <<>>

\* lines 62-70: a string or a mapping with a url is kept when it mentions a key page
KeepLink(it) ==
    IF it.t \in {"str", "dict"} /\ HasKeyPage(LowerStr(it.v)) THEN <<sanitize_url(it.v)>> ELSE <<>>

RECURSIVE KeptMapLinks(_)
\* the links of a MapWebsite response that mention a key page, sanitized
KeptMapLinks(items) ==
    IF items = <<>> THEN <<>> ELSE KeepLink(Head(items)) \o KeptMapLinks(Tail(items))

\* the links the try block appends; nothing when the call raises
MapLinks(outcome) ==
    IF outcome.raises THEN <<>> ELSE KeptMapLinks(MapItemsOf(outcome.payload))

\* faulty variant of MergeCandidates: the final cap is missing
MergeCandidatesUncapped(domain, outcome) == Dedup(SeedUrls(domain) \o MapLinks(outcome))

\* the body of find_candidate_urls after the domain check; outcome = [raises, payload]
MergeCandidates(domain, outcome) ==
    Take(Dedup(SeedUrls(domain) \o MapLinks(outcome)), MapCap)

\* faulty variant of find_candidate_urls: no try block around the MapWebsite call
find_candidate_urls_uncaught(domain, outcome) ==
    IF ~is_safe_domain(domain) THEN [raised |-> TRUE, value |-> <<>>]
    ELSE IF outcome.raises THEN [raised |-> TRUE, value |-> <<>>]
    ELSE [raised |-> FALSE, value |-> MergeCandidates(domain, outcome)]

\* the whole call: raised = TRUE when an exception leaves it, the ValueError of the
\* domain check; the try block keeps an exception of the MapWebsite call inside
find_candidate_urls(domain, outcome) ==
    IF ~is_safe_domain(domain) THEN [raised |-> TRUE, value |-> <<>>]
    ELSE [raised |-> FALSE, value |-> MergeCandidates(domain, outcome)]

(***************************************************************************)
(* tools/firecrawl.py: FirecrawlTool._extract_markdown                     *)
(*                                                                         *)
(* A fetched payload is [t, s, markdown, data, content, text]: t = "str"   *)
(* for the bare string s, "dict" for a mapping with the four fields,       *)
(* anything else otherwise.  Its data field is [t, markdown, content,      *)
(* items]: t = "dict" for a mapping, "list" for a list of items            *)
(* [isDict, markdown], "none" otherwise.                                   *)
(***************************************************************************)
NoData == [t |-> "none", items |-> <<>>, markdown |-> None, content |-> None]
DataDict(markdown, content) ==
    [t |-> "dict", items |-> <<>>, markdown |-> markdown, content |-> content]
DataList(items) == [t |-> "list", items |-> items, markdown |-> None, content |-> None]

StrPayload(s) ==
    [s |-> s, t |-> "str", data |-> NoData, markdown |-> None, content |-> None, text |-> None]
Payload(markdown, data, content, text) ==
    [s |-> "",
     t |-> "dict",
     data |-> data,
     markdown |-> markdown,
     content |-> content,
     text |-> text]
NonePayload ==
    [s |-> "", t |-> "none", data |-> NoData, markdown |-> None, content |-> None, text |-> None]

\* isinstance(x, str) and x.strip()
NonBlank(val) == IsStr(val) /\ Strip(val.v) # ""

OrNone(val) == IF NonBlank(val) THEN val ELSE None

HasMarkdown(it) == it.isDict /\ NonBlank(it.markdown)

\* lines 102-104: the markdown of the first item of the list that has one
FirstMarkdown(items) ==
    items[CHOOSE i \in 1..Len(items) :
            HasMarkdown(items[i]) /\ \A j \in 1..(i - 1) : ~HasMarkdown(items[j])].markdown

DataContent(data) == IF data.t = "dict" THEN data.content ELSE None

extract_markdown(payload) ==
    IF payload.t = "str" /\ Strip(payload.s) # "" THEN Str(payload.s)
    ELSE IF payload.t # "dict" THEN None
    ELSE IF NonBlank(payload.markdown) THEN payload.markdown
    ELSE IF payload.data.t = "dict" /\ NonBlank(payload.data.markdown) THEN payload.data.markdown
    ELSE IF payload.data.t = "list" /\ (\E i \in 1..Len(payload.data.items) :
                                            HasMarkdown(payload.data.items[i]))
    THEN FirstMarkdown(payload.data.items)
    ELSE OrNone(Or(Or(payload.content, DataContent(payload.data)), payload.text))

(***************************************************************************)
(* tools/firecrawl.py: FirecrawlTool.scrape_markdown                       *)
(*                                                                         *)
(* The result mapping is a set of <<key, content>> pairs with unique keys. *)
(***************************************************************************)
PollAttempts == 5
CrawlTake == 3

\* results[key] = content
Put(results, key, content) == {p \in results : p[1] # key} \cup {<<key, content>>}

Keys(results) == {p[1] : p \in results}

OrName(seg, name) == IF seg = "" THEN name ELSE seg

\* key = u.split("/")[-1] or "home"
PageKey(u) == OrName(LastSegment(u), "home")

\* faulty variant of Collected: off by one
CollectedLate(results, max_pages) == Cardinality(results) > max_pages

\* lines 136 / 156: len(results) >= max_pages
Collected(results, max_pages) == Cardinality(results) >= max_pages

\* faulty variant of AfterLoop: the crawl fallback does not ask whether it is allowed
AfterLoopUnasked(results, allow, urls) ==
    IF results # {} THEN "done"
    ELSE IF urls = <<>> THEN "done"
    ELSE IF Head(urls) = "" THEN "done"
    ELSE "crawl_start"

\* lines 164-171: after the loop, return or start the crawl fallback
AfterLoop(results, allow, urls) ==
    IF results # {} \/ ~allow THEN "done"
    ELSE IF urls = <<>> THEN "done"
    ELSE IF Head(urls) = "" THEN "done"
    ELSE "crawl_start"

\* the step after the URL at index i has been handled without an early return
NextUrl(results, allow, urls, i) ==
    IF i < Len(urls) THEN "strict" ELSE AfterLoop(results, allow, urls)

\* faulty variant of LoopErrorStep: the exception leaves scrape_markdown
LoopErrorPropagates(results, allow, urls, i) == "raised"

\* lines 160-162: an exception in the loop body is logged, then "continue"
LoopErrorStep(results, allow, urls, i) == NextUrl(results, allow, urls, i)

\* in place of a value: the call raised
Raised == [t |-> "raised", v |-> ""]

\* faulty variant of EmptyStrictStep: no retry, on to the next URL
EmptyStrictSkips(results, allow, urls, i) == NextUrl(results, allow, urls, i)

\* lines 138-140: the strict call gave no content, the same URL is retried once
EmptyStrictStep(results, allow, urls, i) == "relaxed"

\* lines 240-241: an exception in the crawl fallback returns the mapping
CrawlErrorStep == "done"

(* A CrawlWebsite or GetCrawlStatus payload is [isDict, id, job_id, status,  *)
(* dataIsDict, data_id, data_status] with field values as above.             *)
CrawlReply(id, job_id, status) ==
    [isDict |-> TRUE, id |-> id, job_id |-> job_id, status |-> status,
     dataIsDict |-> FALSE, data_id |-> None, data_status |-> None]
CrawlReplyData(data_id, data_status) ==
    [isDict |-> TRUE, id |-> None, job_id |-> None, status |-> None,
     dataIsDict |-> TRUE, data_id |-> data_id, data_status |-> data_status]
CrawlReplyOther ==
    [isDict |-> FALSE, id |-> None, job_id |-> None, status |-> None,
     dataIsDict |-> FALSE, data_id |-> None, data_status |-> None]

\* line 186
CrawlIdOf(start) ==
    IF start.isDict
    THEN Or(Or(start.id, start.job_id), IF start.dataIsDict THEN start.data_id ELSE None)
    ELSE None

\* line 199
StatOf(status) ==
    IF status.isDict
    THEN Or(status.status, IF status.dataIsDict THEN status.data_status ELSE None)
    ELSE None

\* faulty variant of Terminal: no status ends the polling
TerminalNever(stat) == FALSE

\* line 200
Terminal(stat) == IsStr(stat) /\ LowerStr(stat.v) \in {"completed", "failed", "cancelled"}

(* A GetCrawlData payload is [isDict, data, pages], the two fields being     *)
(* [isList, items]; a page is [isDict, url, p]: a mapping with the url field *)
(* (None: absent) whose other fields are those of the payload p.             *)
Page(url, p) == [p |-> p, isDict |-> TRUE, url |-> url]
NonDictPage == [p |-> NonePayload, isDict |-> FALSE, url |-> None]

PagesOf(data) ==
    IF ~data.isDict THEN <<>>
    ELSE IF data.data.isList THEN data.data.items
    ELSE IF data.pages.isList THEN data.pages.items
    ELSE <<>>

\* it.get("url", default) as str(url)
UrlOf(it, default) == IF it.url = None THEN default ELSE it.url.v

PageNames == <<"page1", "page2", "page3">>

RECURSIVE KeywordPages(_, _)
\* lines 216-224: pages whose URL mentions a key page
KeywordPages(pages, results) ==
    IF pages = <<>> THEN results
    ELSE IF /\ Head(pages).isDict
            /\ HasKeyPage(LowerStr(UrlOf(Head(pages), "")))
            /\ NonBlank(extract_markdown(Head(pages).p))
    THEN KeywordPages(Tail(pages),
                      Put(results, OrName(LastSegment(UrlOf(Head(pages), "")), "page"),
                          extract_markdown(Head(pages).p).v))
    ELSE KeywordPages(Tail(pages), results)

RECURSIVE FirstPages(_, _, _)
\* lines 227-238: the first pages with any content
FirstPages(pages, results, count) ==
    IF pages = <<>> \/ count >= CrawlTake THEN results
    ELSE IF Head(pages).isDict /\ NonBlank(extract_markdown(Head(pages).p))
    THEN FirstPages(Tail(pages),
                    Put(results, OrName(LastSegment(UrlOf(Head(pages), "page")), PageNames[count + 1]),
                        extract_markdown(Head(pages).p).v),
                    count + 1)
    ELSE FirstPages(Tail(pages), results, count)

\* lines 226
OrFirstPages(pages, results) ==
    IF results = {} THEN FirstPages(pages, results, 0) ELSE results

\* lines 209-239
CrawlResults(data, results) == OrFirstPages(PagesOf(data), KeywordPages(PagesOf(data), results))

(***************************************************************************)
(* agents/discovery.py: DiscoveryPlanner                                   *)
(***************************************************************************)
DefaultMaxCandidates == 15
SearchMaxResults == 5
MappedBriefs == 6
FallbackTake == 3
DebugLimit == 2
FullLimit == 6

(* A search entry is a mapping (isDict) with the fields the planner reads,   *)
(* or any other value.  A search payload is [t, list, results, data, items,  *)
(* organic_results]: t = "list" for a bare list, "dict" for a mapping whose  *)
(* four fields are [isList, items], anything else otherwise.                 *)
Entry(link, url, href, title, snippet) ==
    [content |-> None,
     isDict |-> TRUE,
     name |-> None,
     url |-> url,
     link |-> link,
     href |-> href,
     title |-> title,
     snippet |-> snippet,
     heading |-> None,
     description |-> None]
NonDictEntry ==
    [content |-> None,
     isDict |-> FALSE,
     name |-> None,
     url |-> None,
     link |-> None,
     href |-> None,
     title |-> None,
     snippet |-> None,
     heading |-> None,
     description |-> None]

ListPayload(items) ==
    [t |-> "list", items |-> NoList, data |-> NoList, results |-> NoList, list |-> items,
     organic_results |-> NoList]
DictPayload(results, data, items, organic) ==
    [t |-> "dict", items |-> items, data |-> data, results |-> results, list |-> <<>>,
     organic_results |-> organic]
OtherPayload ==
    [t |-> "other", items |-> NoList, data |-> NoList, results |-> NoList, list |-> <<>>,
     organic_results |-> NoList]

OnlyDicts(items) == SelectSeq(items, LAMBDA it : it.isDict)

\* _web_search after the gateway call returned payload
SearchResultsOf(payload) ==
    IF payload.t = "list" THEN OnlyDicts(payload.list)
    ELSE IF payload.t = "dict"
    THEN IF payload.results.isList THEN OnlyDicts(payload.results.items)
         ELSE IF payload.data.isList THEN OnlyDicts(payload.data.items)
         ELSE IF payload.items.isList THEN OnlyDicts(payload.items.items)
         ELSE IF payload.organic_results.isList THEN OnlyDicts(payload.organic_results.items)
         ELSE <<>>
    ELSE <<>>

\* site = domain.replace("https://", "").replace("http://", "")
SiteOf(domain) == Replace(Replace(domain, "https://", ""), "http://", "")

\* base_root = f"https://{site.strip('/')}"
BaseRoot(site) == "https://" \o StripChars(site, {"/"})

\* faulty variant of Resolve: relative links are left as they are
ResolveNothing(site, u) == u

\* a link that starts with a single "/" is resolved against the domain root
\* (urljoin; the modelled links carry no "." or ".." segments)
Resolve(site, u) ==
    IF StartsWith(u, "/") /\ ~StartsWith(u, "//")
    THEN UrlJoinRooted(BaseRoot(site) \o "/", u)
    ELSE u

\* lines 52-57 for u = it.get("link") or it.get("url") or it.get("href")
LinkUrl(site, u) == IF IsStr(u) THEN <<sanitize_url(Resolve(site, u.v))>> ELSE <<>>

EntryLink(it) == Or(Or(it.link, it.url), it.href)

RECURSIVE extract_urls(_, _)
extract_urls(site, items) ==
    IF items = <<>> THEN <<>>
    ELSE LinkUrl(site, EntryLink(Head(items))) \o extract_urls(site, Tail(items))

\* "x or ''" : the empty string when x is falsy
OrEmpty(val) == IF Truthy(val) THEN val ELSE Str("")

to_brief(it) ==
    [link |-> OrEmpty(Or(Or(it.link, it.url), it.href)),
     title |-> OrEmpty(Or(Or(it.title, it.name), it.heading)),
     snippet |-> OrEmpty(Or(Or(it.snippet, it.description), it.content))]

MappedBrief(u) == [link |-> Str(u), title |-> Str("Mapped"), snippet |-> Str("")]

MappedBriefsOf(m) == [i \in 1..Len(m) |-> MappedBrief(m[i])]

BriefsOf(items) == [i \in 1..Len(items) |-> to_brief(items[i])]

\* lines 73-75: mapped links stand in when the searches produced nothing
OrMapped(briefs, mapped) ==
    IF briefs = <<>> /\ mapped # <<>> THEN MappedBriefsOf(Take(mapped, MappedBriefs)) ELSE briefs

\* the side channel built at lines 63-75
SearchBriefs(mapped, s1, s2) == OrMapped(BriefsOf(s1) \o BriefsOf(s2), mapped)

\* lines 79-87 for base = sanitize_url(domain)
CommonsFrom(base) ==
    << base, base \o "/about", base \o "/company", base \o "/team",
       base \o "/leadership", base \o "/careers", base \o "/jobs" >>

\* the deterministic fallback paths
Commons(domain) == CommonsFrom(sanitize_url(domain))

\* faulty variant of Candidates: the theme-2 links come before the theme-1 links
CandidatesSwapped(site, mapped, s1, s2) ==
    mapped \o extract_urls(site, s2) \o extract_urls(site, s1)

\* line 60
Candidates(site, mapped, s1, s2) == mapped \o extract_urls(site, s1) \o extract_urls(site, s2)

\* lines 78-97
DedupCap(domain, candidates, max_candidates) ==
    Take(Dedup(IF candidates = <<>> THEN Commons(domain) ELSE candidates), max_candidates)

\* lines 60 and 78-97: the candidate list handed to the ranking step
UniqueCandidates(domain, mapped, s1, s2, max_candidates) ==
    DedupCap(domain, Candidates(SiteOf(domain), mapped, s1, s2), max_candidates)

(* The reply of the text-generation call is [kind, about, team, leadership,  *)
(* careers, jobs]: kind = "raises" when the call or the access to its reply  *)
(* raises, "notjson" when json.loads raises, "nonobject" for JSON that is no *)
(* object, "object" for a JSON object with the five fields (None: absent).   *)
EmptyPick == [about |-> Str(""), team |-> Str(""), careers |-> Str("")]

\* data.get(key, "")
GetOrEmpty(val) == IF val = None THEN Str("") ELSE val

llm_select(reply) ==
    IF reply.kind = "object"
    THEN [about |-> GetOrEmpty(reply.about),
          team |-> Or(GetOrEmpty(reply.team), GetOrEmpty(reply.leadership)),
          careers |-> Or(GetOrEmpty(reply.careers), GetOrEmpty(reply.jobs))]
    ELSE EmptyPick

\* chosen = [p for p in [about, team, careers] if isinstance(p, str) and p]
Chosen(pick) ==
    SelectSeq(<<pick.about, pick.team, pick.careers>>, LAMBDA p : IsStr(p) /\ p.v # "")

\* lines 109-110
AppendNew(out, u) == IF u \in SeqToSet(out) THEN out ELSE Append(out, u)

RECURSIVE BuildOut(_, _, _)
\* for u in chosen: resolve, sanitize, append when new
BuildOut(site, chosen, out) ==
    IF chosen = <<>> THEN out
    ELSE BuildOut(site, Tail(chosen), AppendNew(out, sanitize_url(Resolve(site, Head(chosen).v))))

\* faulty variant of OrFirstCandidates: no fallback to the candidate list
OrNothing(out, unique) == out

\* lines 112-113
OrFirstCandidates(out, unique) == IF out = <<>> THEN Take(unique, FallbackTake) ELSE out

\* lines 102-113: the list before the mode truncation
OutOf(site, pick, unique) == OrFirstCandidates(BuildOut(site, Chosen(pick), <<>>), unique)

\* faulty variant of ModeLimit: the reduced limit in both modes
ModeLimitReduced(debug) == DebugLimit

\* line 115
ModeLimit(debug) == IF debug THEN DebugLimit ELSE FullLimit

SearchQuery(site, theme) ==
    "site:" \o site \o
    (CASE theme = "all" -> " (about OR company OR team OR leadership OR careers OR jobs)"
       [] theme = "about" -> " (about OR company OR team OR leadership)"
       [] theme = "careers" -> " (careers OR jobs)")
    \o " -blog -press"

(***************************************************************************)
(* Inputs of the model: the values the callers and the external services   *)
(* (MapWebsite, GoogleSearch.Search, the text-generation call) supply.     *)
(***************************************************************************)
SmallMaxCandidates == 2

\* the discover_urls calls made on one planner
MaxCalls == 2

DomainInputs == {"example.com", "acme.io", "exa mple.com", "https://Example.com/x?y=1"}

MaxCandidatesInputs == {DefaultMaxCandidates, SmallMaxCandidates}

Returns(payload) == [payload |-> payload, raises |-> FALSE]

ProbeDomainInputs ==
    DomainInputs \cup {"sub.example.org", " example.com ", "http://acme.io/", "HTTPS://ACME.IO",
                       "javascript:alert(1)", "https://[acme.io", "acme.i0", ""}

MaxMapLinks == 2

MapItems ==
    { [t |-> "str", v |-> "https://example.com/About-Us?ref=1"],
      [t |-> "str", v |-> "https://example.com/blog"],
      [t |-> "str", v |-> "https://example.com/about"],
      [t |-> "dict", v |-> "https://acme.io/press/team#top"],
      [t |-> "other", v |-> ""] }

MapLists == UNION {[1..n -> MapItems] : n \in 0..MaxMapLinks}

MapPayloads ==
    {[t |-> "dict", links |-> List(l), data |-> NoList] : l \in MapLists}
    \cup {[t |-> "dict", links |-> NoList, data |-> List(l)] : l \in MapLists}
    \cup {[t |-> "list", links |-> NoList, data |-> NoList]}

MapOutcomes ==
    {[payload |-> [t |-> "none", links |-> NoList, data |-> NoList], raises |-> TRUE]}
    \cup {Returns(p) : p \in MapPayloads}

SearchPayloads ==
    { ListPayload(<<Entry(Str("/team"), None, None, Str("About"), Str(""))>>),
      ListPayload(<<>>),
      DictPayload(List(<< Entry(None, Str("https://example.com/careers?x=1#top"), None, None, Str("Jobs")),
                          NonDictEntry >>),
                  NoList, NoList, NoList),
      DictPayload(NoList, NoList, NoList,
                  List(<< Entry(Str(""), Str(""), Str("https://evil.com/about"), Str("Evil"), None),
                          Entry(Num, Str("/ignored"), None, None, None) >>)),
      DictPayload(NoList, NoList, NoList, NoList),
      OtherPayload }

SearchOutcomes ==
    {[payload |-> OtherPayload, raises |-> TRUE]} \cup {Returns(p) : p \in SearchPayloads}

Reply(kind, about, team, leadership, careers, jobs) ==
    [about |-> about, team |-> team, careers |-> careers, kind |-> kind, leadership |-> leadership,
     jobs |-> jobs]

RankReplies ==
    { Reply("raises", None, None, None, None, None),
      Reply("notjson", None, None, None, None, None),
      Reply("nonobject", None, None, None, None, None),
      Reply("object", None, None, None, None, None),
      Reply("object", Str(""), Num, None, Str(""), None),
      Reply("object", Str("/about"), Str("/team"), None, Str(""), None),
      Reply("object", Str("/about"), None, Str("/about?x=1"), None, Str("/jobs")),
      Reply("object", Str("https://evil.com/about"), Str("/te am"), None, Str("//cdn.example.com/careers"), None) }

TenUrls == [i \in 1..10 |-> "https://example.com/" \o KEY_PAGES[i]]

UrlLists ==
    { <<>>,
      <<"https://example.com", "https://example.com/about", "https://example.com/team/">>,
      <<"https://example.com/about", "https://acme.io/about", "https://acme.io/careers?x=1">>,
      TenUrls }

MaxPages == 2
MaxPagesInputs == 0..MaxPages

ScrapePayloads ==
    { StrPayload("# Home"),
      StrPayload("  "),
      Payload(Str(" \n"), DataDict(Str("## Team"), None), None, None),
      Payload(None, DataList(<<[markdown |-> None, isDict |-> FALSE],
                               [markdown |-> Str(""), isDict |-> TRUE],
                               [markdown |-> Str("## Team"), isDict |-> TRUE]>>), Str("x"), None),
      Payload(None, DataDict(None, Str("# Home")), Str(""), Str("text")),
      Payload(Num, NoData, Str(" "), Str("text")),
      Payload(None, NoData, None, None),
      NonePayload }

ScrapeOutcomes ==
    {[payload |-> NonePayload, raises |-> TRUE]} \cup {Returns(p) : p \in ScrapePayloads}

CrawlStartOutcomes ==
    {[payload |-> CrawlReplyOther, raises |-> TRUE]}
    \cup {Returns(p) : p \in { CrawlReply(Str("c1"), None, None),
                               CrawlReply(Str(""), Str("job7"), None),
                               CrawlReplyData(Str("c1"), None),
                               CrawlReply(None, None, Str("queued")),
                               CrawlReplyOther }}

CrawlStatusOutcomes ==
    {[payload |-> CrawlReplyOther, raises |-> TRUE]}
    \cup {Returns(p) : p \in { CrawlReply(None, None, Str("completed")),
                               CrawlReply(None, None, Str("scraping")),
                               CrawlReplyData(None, Str("FAILED")),
                               CrawlReplyOther }}

CrawlData(isDict, data, pages) == [data |-> data, isDict |-> isDict, pages |-> pages]

CrawlDataOutcomes ==
    {[payload |-> CrawlData(FALSE, NoList, NoList), raises |-> TRUE]}
    \cup {Returns(p) : p \in
           { CrawlData(TRUE,
                       List(<< Page(Str("https://example.com/About"), Payload(Str("# Home"), NoData, None, None)),
                               NonDictPage,
                               Page(Str("https://example.com/blog"), Payload(Str("## Team"), NoData, None, None)),
                               Page(Str("https://example.com/jobs/"), Payload(None, NoData, None, Str("text"))) >>),
                       NoList),
             CrawlData(TRUE, NoList,
                       List(<< Page(None, Payload(Str("# Home"), NoData, None, None)),
                               Page(Str("https://example.com/"), Payload(None, NoData, Str("text"), None)),
                               Page(Str("https://example.com/blog"), Payload(None, NoData, None, None)),
                               Page(Str("https://example.com/blog"), Payload(Str("## Team"), NoData, None, None)),
                               Page(Str("https://example.com/x"), Payload(Str("# Home"), NoData, None, None)) >>)),
             CrawlData(TRUE, NoList, NoList),
             CrawlData(FALSE, NoList, NoList) }}

\* the collaborator handed to the planner: the FirecrawlTool, or a test double
\* whose prober returns a fixed list, with or without an executor
Firecrawls ==
    {[prober |-> "tool", hasExec |-> TRUE]}
    \cup [prober : {"stub_about", "stub_empty"}, hasExec : BOOLEAN]

StubMapped(fc, d) ==
    IF fc.prober = "stub_about" THEN <<"https://" \o d \o "/about">> ELSE <<>>

(***************************************************************************)
(* ArcadeToolExecutor.execute (tools/executor.py) under EventLogger.timed  *)
(* (utils/logging.py).  A LogEvent is kept with its step, tool and outcome.*)
(***************************************************************************)
MaxEvents == 3

(***************************************************************************)
(* agents/web_researcher.py: WebResearcher                                 *)
(*                                                                         *)
(* A reply of requests.get is <<kind, status, text>>: kind is "response",  *)
(* or the class of the exception raised by the request or by the parsing;  *)
(* text is the cleaned text of the page's main content.                    *)
(***************************************************************************)
LowerSet == CharSet(LowerAlpha)
UpperOf == [c \in LowerSet |-> CharAt(UpperAlpha, CHOOSE i \in 1..Len(LowerAlpha) : CharAt(LowerAlpha, i) = c)]

UpperChar(c) == IF c \in LowerSet THEN UpperOf[c] ELSE c

\* a letter that follows a letter is lower-cased, any other letter is upper-cased
TitleChar(c, afterLetter) ==
    IF c \notin Letters THEN c ELSE IF afterLetter THEN LowerChar(c) ELSE UpperChar(c)

RECURSIVE TitleFrom(_, _)
TitleFrom(s, afterLetter) ==
    IF s = "" THEN ""
    ELSE TitleChar(CharAt(s, 1), afterLetter)
         \o TitleFrom(SubSeq(s, 2, Len(s)), CharAt(s, 1) \in Letters)

\* Python: s.title()
Title(s) == TitleFrom(s, FALSE)

\* line 197: the three suffixes are removed wherever they occur
WithoutTlds(d) == Replace(Replace(Replace(d, ".com", ""), ".org", ""), ".net", "")

\* lines 193-199: _domain_to_company_name
domain_to_company_name(d) ==
    Title(Replace(Replace(Replace(WithoutTlds(d), "www.", ""), "-", " "), "_", " "))

PagePaths == <<"", "/about", "/about-us", "/company", "/team", "/careers", "/jobs", "/news",
               "/press", "/blog", "/culture", "/mission", "/values">>

\* lines 47-61
PagesToScrape(d) == [i \in 1..Len(PagePaths) |-> "https://" \o d \o PagePaths[i]]

max_attempts == 5
max_pages_scraped == 5
MinContentLen == 100
KeyPageLimit == 3000
PageLimit == 2000
MissionLimit == 500

\* line 83: the loop stops, also when pages_to_scrape is used up
LoopEnds(p, att, succ) == p > Len(PagePaths) \/ att >= max_attempts \/ succ >= max_pages_scraped

\* line 136: the limit of the page kept
ContentLimit(url) ==
    IF Contains(url, "/about") \/ Contains(url, "/company") \/ Contains(url, "/mission")
    THEN KeyPageLimit ELSE PageLimit

\* line 137: text[:content_limit]
CleanText(resp, url) == SubSeq(resp[3], 1, Min(ContentLimit(url), Len(resp[3])))

\* lines 93 and 139: status 200 and more than 100 characters of text
Usable(resp, url) ==
    resp[1] = "response" /\ resp[2] = 200 /\ Len(CleanText(resp, url)) > MinContentLen

\* website_content.get(key, '')
PageText(content, key) == IF \E p \in content : p[1] = key THEN (CHOOSE p \in content : p[1] = key)[2] ELSE ""

\* line 185: the first 500 characters of the about page, else of the home page
MissionOf(content) ==
    OrName(SubSeq(PageText(content, "about"), 1, Min(MissionLimit, Len(PageText(content, "about")))),
           SubSeq(PageText(content, "home"), 1, Min(MissionLimit, Len(PageText(content, "home")))))

\* models/data_models.py lines 25-26: the fields of the dataclass, none with a default
CompanyInfoFields == {"mission", "recent_news"}
\* lines 184-191: the keywords of the CompanyInfo(...) call
AnalyzeKeywords == {"mission", "recent_news", "culture_values", "key_products",
                    "recent_developments", "team_info"}

\* a dataclass's __init__ takes its fields and nothing else; TypeError otherwise
DataclassAccepts(fields, keywords) == keywords = fields

Filler == "Lorem ipsum dolor sit amet, consectetur adipiscing"
Text100 == Filler \o Filler
Text101 == Filler \o Filler \o "."

ResearchDomains == {"stripe.com", "acme.co.uk", "jobs.example.io", "www.company.com",
                    "my-shop_x.net", "STRIPE.COM", "exa mple.com", "example.com/x\"y"}

Responses == { <<"RequestException", 0, "">>, <<"Exception", 200, Text101>>,
               <<"response", 404, Text101>>, <<"response", 500, "">>,
               <<"response", 200, "">>, <<"response", 200, Text100>>,
               <<"response", 200, Text101>> }

(***************************************************************************)
(* agents/email_analyzer.py: EmailAnalyzer._extract_content_from_thread    *)
(*                                                                         *)
(* A thread is [messages, content, snippet], a message is [snippet, parts, *)
(* content], a part is [mimeType, data]; a field that is None is absent,   *)
(* and the fields body, text and message are absent throughout.            *)
(***************************************************************************)
\* the names bound at the top level of agents/email_analyzer.py (lines 1-9)
ModuleNames == {"List", "Dict", "Any", "asyncio", "Arcade", "parseaddr", "EmailInsight",
                "CompanyEmail", "Config", "EmailAnalyzer"}

Part(mimeType, data) == [data |-> data, mimeType |-> mimeType]
Message(snippet, parts, content) == [content |-> content, snippet |-> snippet, parts |-> parts]
Thread(messages, content, snippet) ==
    [content |-> content, snippet |-> snippet, messages |-> messages]
NoThread == Thread(<<>>, None, None)

\* isinstance(x, str) and x
NonEmptyStr(val) == IsStr(val) /\ val.v # ""

\* lines 292-296: a text/plain part whose body data is a non-empty string
PlainBody(p) == p.mimeType = "text/plain" /\ NonEmptyStr(p.data)

\* the body data of the first such part, as stored
FirstPlainBody(parts) ==
    parts[CHOOSE i \in 1..Len(parts) :
            PlainBody(parts[i]) /\ \A j \in 1..(i - 1) : ~PlainBody(parts[j])].data

\* lines 300-304 / 308-312: the first of the fields that is a non-empty string
FirstField(vals) ==
    IF \E i \in 1..Len(vals) : NonEmptyStr(vals[i])
    THEN vals[CHOOSE i \in 1..Len(vals) :
                NonEmptyStr(vals[i]) /\ \A j \in 1..(i - 1) : ~NonEmptyStr(vals[j])]
    ELSE None

\* lines 306-314: the fields of the first message, then thread_data.get('snippet', '')
MessageFields(th) ==
    IF th.messages # <<>> /\ FirstField(<<th.messages[1].content, th.messages[1].snippet>>) # None
    THEN FirstField(<<th.messages[1].content, th.messages[1].snippet>>)
    ELSE GetOrEmpty(th.snippet)

\* lines 282-314
extract_content_from_thread(th) ==
    IF th.messages # <<>> /\ NonEmptyStr(th.messages[1].snippet) THEN th.messages[1].snippet
    ELSE IF th.messages # <<>> /\ (\E i \in 1..Len(th.messages[1].parts) :
                                      PlainBody(th.messages[1].parts[i]))
    THEN FirstPlainBody(th.messages[1].parts)
    ELSE IF FirstField(<<th.content, th.snippet>>) # None
    THEN FirstField(<<th.content, th.snippet>>)
    ELSE MessageFields(th)

(***************************************************************************)
(* Arguments of _extract_content_from_thread; the body data are the        *)
(* base64url texts of "Interview scheduled for Monday" and "Hi!"           *)
(***************************************************************************)
InterviewB64 == "SW50ZXJ2aWV3IHNjaGVkdWxlZCBmb3IgTW9uZGF5"
HiB64 == "SGkh"

PartLists ==
    { <<>>,
      <<Part("text/plain", Str(InterviewB64))>>,
      <<Part("text/html", Str("PGI-")), Part("text/plain", Str("")),
        Part("text/plain", Str(HiB64))>>,
      <<Part("text/html", Str("PGI-")), Part("text/plain", None)>> }

Messages ==
    {Message(sn, parts, c) : sn \in {None, Str(""), Str("Reminder: bring ID")},
                             parts \in PartLists, c \in {None, Str("message content")}}

Threads ==
    {Thread(ms, c, sn) : ms \in {<<>>} \cup {<<m>> : m \in Messages},
                         c \in {None, Str("thread content")},
                         sn \in {None, Str("thread snippet")}}

(***************************************************************************)
(* Arguments of the validators                                             *)
(***************************************************************************)
MaxInputLen == 4
InputAlphabet == {"a", "Z", ".", " ", "/"}

\* every string over InputAlphabet of length n
RECURSIVE StringsOfLen(_)
StringsOfLen(n) ==
    IF n = 0 THEN {""} ELSE {s \o c : s \in StringsOfLen(n - 1), c \in InputAlphabet}

ShortInputs == UNION {StringsOfLen(n) : n \in 0..MaxInputLen}

InputPrefixes == {"", " ", "http://", "https://", "HTTP://", "//", "https:////"}
InputHosts == {"", "x", "example.com", "Exa-mple.CO", "exa mple.com", "o'neil.com",
               "ex\"ample.com", "a\\b.com", "1.2.cd", "user@example.com"}
InputSuffixes == {"", " ", "/", "/about", "/a b", "/\"x\"", "/x;y?q=1#f", ":80/x", "//x", "/%/x"}
UrlInputs == {p \o h \o x : p \in InputPrefixes, h \in InputHosts, x \in InputSuffixes}

ValidatorInputs == ShortInputs \cup UrlInputs

(***************************************************************************)
(* Arguments of _extract_markdown                                          *)
(***************************************************************************)
MarkdownValues == {None, Str(" \n"), Str("# md")}
ContentValues == {None, Str(""), Str(" "), Num, Str("content")}
TextValues == {None, Str(" "), Str("text")}
ItemLists ==
    { <<>>,
      <<[markdown |-> None, isDict |-> FALSE], [markdown |-> Str(""), isDict |-> TRUE],
        [markdown |-> Str("## item 3"), isDict |-> TRUE],
        [markdown |-> Str("## item 4"), isDict |-> TRUE]>>,
      <<[markdown |-> Num, isDict |-> TRUE], [markdown |-> Str(" "), isDict |-> TRUE]>> }
DataValues ==
    {NoData} \cup {DataList(items) : items \in ItemLists}
    \cup {DataDict(m, c) : m \in {None, Str(""), Str("## data")},
                           c \in {None, Str(" "), Num, Str("data content")}}

ExtractPayloads ==
    {StrPayload(""), StrPayload(" \n "), StrPayload("# Home"), NonePayload}
    \cup {Payload(m, d, c, x) : m \in MarkdownValues, d \in DataValues, c \in ContentValues,
                                x \in TextValues}

\* EventLogger.log: one JSON line appended to the sink
LogEvent(step, tool, outcome) == [outcome |-> outcome, step |-> step, tool |-> tool]
Log(events, step, tool, outcome) == Append(events, LogEvent(step, tool, outcome))

\* an exception object: its class name and its message
Error(name, message) == [name |-> name, message |-> message]
NoError == Error("", "")

\* what client.tools.execute hands back: a response object with output.value, a
\* dict, an object with a result attribute, or anything else
ToolResult(shape, value) == [value |-> value, shape |-> shape]

\* lines 24-30: the payload taken from the gateway's result
PayloadOf(res) ==
    IF res.shape = "response" THEN res.value
    ELSE IF res.shape = "dict" THEN res.value
    ELSE IF res.shape = "has_result" THEN res.value
    ELSE Str("object")

\* _Timer.__exit__, lines 47-54: a failure event when an exception leaves the block
TimerExit(events, step, tool, err) ==
    IF err # NoError THEN Log(events, step, tool, "error:" \o err.name) ELSE events

\* lines 33-35: the except clause logs through t.result("error") and re-raises
ExceptClause(events, step, tool) == Log(events, step, tool, "error")

\* the sink after the gateway raised err: except clause, then the timer's exit
SinkAfterError(events, step, tool, err) ==
    TimerExit(ExceptClause(events, step, tool), step, tool, err)

\* the sink after the gateway returned: t.result("ok"), then the timer's exit
SinkAfterOk(events, step, tool) == TimerExit(Log(events, step, tool, "ok"), step, tool, NoError)

\* faulty variant of Reraised: the exception is wrapped in another one
ReraisedWrapped(err) == Error("ExecutorError", err.message)

\* line 35: a bare raise, the exception that was caught
Reraised(err) == err

ExecSteps == {<<"act:scrape", "Firecrawl.ScrapeUrl">>, <<"act:web_search", "GoogleSearch.Search">>}

GatewayErrors == {Error("TimeoutError", "timed out"), Error("RuntimeError", "boom")}

GatewayResults ==
    { ToolResult("response", Str("# Home")), ToolResult("dict", None),
      ToolResult("has_result", Str("x")), ToolResult("other", None) }

GatewayOutcomes ==
    {[raises |-> TRUE, res |-> ToolResult("other", None), error |-> e] : e \in GatewayErrors}
    \cup {[raises |-> FALSE, res |-> r, error |-> NoError] : r \in GatewayResults}

(***************************************************************************)
(* State                                                                   *)
(***************************************************************************)
VARIABLES
    \* DiscoveryPlanner: the object's fields and the position in discover_urls
    firecrawl, debug, last_search_results,
    \* the number of discover_urls calls that the owner of the planner has yet to make
    callsLeft,
    dpc, domain, max_candidates, mapped, s1, s2, rank_reply, unique, out, result, calls,
    \* FirecrawlTool.find_candidate_urls called on its own
    fpc, fdomain, foutcome, fresult,
    \* FirecrawlTool.scrape_markdown: arguments, locals and position
    spc, urls, max_pages, allow_crawl_fallback, idx, results, crawl_id, polls,
    \* history of scrape_markdown: the ScrapeUrl calls of the URL handled last, the tools
    \* of the crawl fallback that were called, whether a ScrapeUrl call was issued with
    \* max_pages pages already recorded, whether some URL was left without a page
    \* whether the gateway call of the step taken last raised
    sfetch, ccalls, lateFetch, anyMiss, lastError,
    \* what the strict call of the URL handled last came to ("content", "empty" or
    \* "raised"), and the status that each GetCrawlStatus call reported (Raised when
    \* the call raised)
    strictResult, statuses,
    \* ArcadeToolExecutor.execute: position, arguments, the events written to the
    \* logger's sink, the sink's length when the call began, the gateway invocations
    \* of the call, the exception the gateway raised, what execute returned or raised
    epc, estep, etool, sink, sinkBase, gatewayCalls, gatewayError, eresult,
    \* utils/validators.py: the function applied, its argument, and what is_safe_domain,
    \* ensure_https or sanitize_url returned; vurl2 is sanitize_url applied to vurl
    vfn, vin, vsafe, vurl, vurl2,
    \* FirecrawlTool._extract_markdown: whether it was applied, its argument, its result
    xdone, xin, xout,
    \* WebResearcher.research_company: position, argument, the derived name, the index
    \* of the page the loop is at, the loop's counters and mapping, the URLs requested
    \* so far, the exception that left the call, the CompanyInfo built
    rpc, company_domain, company_name, page, attempts, successful_scrapes, scraped_content,
    requested, rerror, structured_info,
    \* agents/email_analyzer.py: the outcome of importing _extract_content_from_thread
    \* from the module, whether the method was applied, its argument, its result
    timport, tdone, thread_data, tcontent

plannerVars == <<firecrawl, debug, last_search_results, callsLeft,
                 dpc, domain, max_candidates, mapped, s1, s2, rank_reply, unique, out, result,
                 calls>>
proberVars == <<fpc, fdomain, foutcome, fresult>>
scrapeVars == <<spc, urls, max_pages, allow_crawl_fallback, idx, results, crawl_id, polls,
                sfetch, ccalls, lateFetch, anyMiss, lastError, strictResult, statuses>>
execVars == <<epc, estep, etool, sink, sinkBase, gatewayCalls, gatewayError, eresult>>
valVars == <<vfn, vin, vsafe, vurl, vurl2>>
\* the variables that ArcadeToolExecutor does not touch either
extractVars == <<xdone, xin, xout>>
researchVars == <<rpc, company_domain, company_name, page, attempts, successful_scrapes,
                  scraped_content, requested, rerror, structured_info>>
emailVars == <<timport, tdone, thread_data, tcontent>>
otherVars == <<valVars, extractVars, researchVars, emailVars>>
\* the variables of the components that the planner and the FirecrawlTool do not touch
restVars == <<execVars, otherVars>>
vars == <<plannerVars, proberVars, scrapeVars, restVars>>

NoOutcome == [payload |-> [t |-> "none", links |-> NoList, data |-> NoList], raises |-> FALSE]

NoReply == Reply("none", None, None, None, None, None)

InitObjects ==
    /\ firecrawl \in Firecrawls
    /\ debug \in BOOLEAN
    /\ last_search_results = <<>>
    /\ dpc = "idle"
    /\ domain = ""
    /\ max_candidates = DefaultMaxCandidates
    /\ mapped = <<>>
    /\ s1 = <<>>
    /\ s2 = <<>>
    /\ rank_reply = NoReply
    /\ unique = <<>>
    /\ out = <<>>
    /\ result = <<>>
    /\ calls = <<>>
    /\ fpc = "idle"
    /\ fdomain = ""
    /\ foutcome = NoOutcome
    /\ fresult = <<>>
    /\ spc = "idle"
    /\ urls = <<>>
    /\ max_pages = 0
    /\ allow_crawl_fallback = TRUE
    /\ idx = 1
    /\ results = {}
    /\ crawl_id = None
    /\ polls = 0
    /\ sfetch = <<>>
    /\ ccalls = <<>>
    /\ lateFetch = FALSE
    /\ anyMiss = FALSE
    /\ strictResult = ""
    /\ statuses = <<>>
    /\ lastError = FALSE
    /\ epc = "idle"
    /\ estep = ""
    /\ etool = ""
    /\ sink = <<>>
    /\ sinkBase = 0
    /\ gatewayCalls = 0
    /\ gatewayError = NoError
    /\ eresult = None
    /\ vfn = ""
    /\ vsafe = FALSE
    /\ vurl = ""
    /\ vurl2 = ""
    /\ xdone = FALSE
    /\ xout = None
    /\ rpc = "idle"
    /\ company_domain = ""
    /\ company_name = ""
    /\ page = 1
    /\ attempts = 0
    /\ successful_scrapes = 0
    /\ scraped_content = {}
    /\ requested = <<>>
    /\ rerror = ""
    /\ structured_info = <<>>
    /\ timport = ""
    /\ tdone = FALSE
    /\ tcontent = None

\* the program before any call; the pure functions have no argument yet
Init == InitObjects /\ callsLeft = 1 /\ vin = "" /\ xin = NonePayload /\ thread_data = NoThread

(***************************************************************************)
(* DiscoveryPlanner.discover_urls, one action per awaited call             *)
(***************************************************************************)
Call(op, query, num) == [op |-> op, query |-> query, num |-> num]

\* faulty variant of DiscoverStart: the domain check is missing
DiscoverStartUnchecked(d, mc) ==
    /\ dpc \in {"idle", "done", "raised"}
    /\ callsLeft > 0
    /\ fpc = "idle"
    /\ spc = "idle"
    /\ callsLeft' = callsLeft - 1
    /\ domain' = d
    /\ max_candidates' = mc
    /\ dpc' = "map"
    \* a new call starts with its own locals, and nothing was called or returned yet
    /\ mapped' = <<>>
    /\ s1' = <<>>
    /\ s2' = <<>>
    /\ rank_reply' = NoReply
    /\ unique' = <<>>
    /\ out' = <<>>
    /\ result' = <<>>
    /\ calls' = <<>>
    /\ UNCHANGED <<firecrawl, debug, last_search_results, proberVars, scrapeVars, restVars>>

\* lines 23-32: a call of discover_urls on the planner, the first one or a later one;
\* the domain check
DiscoverStart(d, mc) ==
    /\ dpc \in {"idle", "done", "raised"}
    /\ callsLeft > 0
    /\ fpc = "idle"
    /\ spc = "idle"
    /\ callsLeft' = callsLeft - 1
    /\ domain' = d
    /\ max_candidates' = mc
    /\ dpc' = IF is_safe_domain(d) THEN "map" ELSE "done"
    \* a new call starts with its own locals, and nothing was called or returned yet
    /\ mapped' = <<>>
    /\ s1' = <<>>
    /\ s2' = <<>>
    /\ rank_reply' = NoReply
    /\ unique' = <<>>
    /\ out' = <<>>
    /\ result' = <<>>
    /\ calls' = <<>>
    /\ UNCHANGED <<firecrawl, debug, last_search_results, proberVars, scrapeVars, restVars>>

\* lines 36 / 41: mapped = await self.firecrawl.find_candidate_urls(domain)
DiscoverMap(outcome) ==
    /\ dpc = "map"
    /\ IF firecrawl.prober = "tool"
       THEN /\ mapped' = find_candidate_urls(domain, outcome).value
            /\ dpc' = IF find_candidate_urls(domain, outcome).raised THEN "raised" ELSE "search1"
       ELSE /\ mapped' = StubMapped(firecrawl, domain)
            /\ dpc' = "search1"
    /\ calls' = Append(calls, Call("map", "", 0))
    /\ UNCHANGED <<firecrawl, debug, last_search_results, callsLeft, domain, max_candidates, s1, s2,
                   rank_reply, unique, out, result, proberVars, scrapeVars, restVars>>

\* lines 38 / 44 and 147-166: s1 = await self._web_search(q, max_results=5)
DiscoverSearch1(outcome) ==
    /\ dpc = "search1"
    /\ IF ~firecrawl.hasExec
       THEN /\ s1' = <<>>
            /\ dpc' = IF debug THEN "rank" ELSE "search2"
            /\ calls' = calls
       ELSE /\ calls' = Append(calls, Call("search",
                                          SearchQuery(SiteOf(domain), IF debug THEN "all" ELSE "about"),
                                          SearchMaxResults))
            /\ IF outcome.raises
               THEN /\ s1' = s1
                    /\ dpc' = "raised"
               ELSE /\ s1' = SearchResultsOf(outcome.payload)
                    /\ dpc' = IF debug THEN "rank" ELSE "search2"
    /\ UNCHANGED <<firecrawl, debug, last_search_results, callsLeft, domain, max_candidates, mapped, s2,
                   rank_reply, unique, out, result, proberVars, scrapeVars, restVars>>

\* line 45: s2 = await self._web_search(q2, max_results=5), full mode only
DiscoverSearch2(outcome) ==
    /\ dpc = "search2"
    /\ IF ~firecrawl.hasExec
       THEN /\ s2' = <<>>
            /\ dpc' = "rank"
            /\ calls' = calls
       ELSE /\ calls' = Append(calls, Call("search", SearchQuery(SiteOf(domain), "careers"),
                                          SearchMaxResults))
            /\ IF outcome.raises
               THEN /\ s2' = s2
                    /\ dpc' = "raised"
               ELSE /\ s2' = SearchResultsOf(outcome.payload)
                    /\ dpc' = "rank"
    /\ UNCHANGED <<firecrawl, debug, last_search_results, callsLeft, domain, max_candidates, mapped, s1,
                   rank_reply, unique, out, result, proberVars, scrapeVars, restVars>>

\* lines 60-115: candidates, side channel, ranking call, final list
DiscoverRank(reply) ==
    /\ dpc = "rank"
    /\ unique' = UniqueCandidates(domain, mapped, s1, s2, max_candidates)
    /\ rank_reply' = reply
    /\ out' = OutOf(SiteOf(domain), llm_select(reply), unique')
    /\ result' = Take(out', ModeLimit(debug))
    /\ last_search_results' = SearchBriefs(mapped, s1, s2)
    /\ calls' = Append(calls, Call("rank", "", 0))
    /\ dpc' = "done"
    /\ UNCHANGED <<firecrawl, debug, callsLeft, domain, max_candidates, mapped, s1, s2, proberVars,
                   scrapeVars, restVars>>

NextDiscover ==
    \/ \E d \in DomainInputs, mc \in MaxCandidatesInputs : DiscoverStart(d, mc)
    \/ \E o \in MapOutcomes : DiscoverMap(o)
    \/ \E o \in SearchOutcomes : DiscoverSearch1(o)
    \/ \E o \in SearchOutcomes : DiscoverSearch2(o)
    \/ \E r \in RankReplies : DiscoverRank(r)

(***************************************************************************)
(* FirecrawlTool.find_candidate_urls called directly                       *)
(***************************************************************************)
\* lines 28-38: the domain check, then the seed list
ProbeStart(d) ==
    /\ fpc = "idle"
    /\ dpc = "idle"
    /\ spc = "idle"
    /\ fdomain' = d
    /\ fpc' = IF is_safe_domain(d) THEN "map" ELSE "raised"
    /\ UNCHANGED <<foutcome, fresult, plannerVars, scrapeVars, restVars>>

\* lines 40-82: the MapWebsite call, the merge, the dedup and the cap
ProbeMap(outcome) ==
    /\ fpc = "map"
    /\ foutcome' = outcome
    /\ fresult' = find_candidate_urls(fdomain, outcome).value
    /\ fpc' = IF find_candidate_urls(fdomain, outcome).raised THEN "raised" ELSE "done"
    /\ UNCHANGED <<fdomain, plannerVars, scrapeVars, restVars>>

NextProbe ==
    \/ \E d \in ProbeDomainInputs : ProbeStart(d)
    \/ \E o \in MapOutcomes : ProbeMap(o)

(***************************************************************************)
(* FirecrawlTool.scrape_markdown, one action per awaited call              *)
(***************************************************************************)
StrictTimeout == 20000
StrictWait == 50
RelaxedTimeout == 25000
RelaxedWait == 150

ScrapeCall(url, only_main_content, timeout, wait_for) ==
    [url |-> url, only_main_content |-> only_main_content, timeout |-> timeout,
     wait_for |-> wait_for]

\* line 116 and the loop header
ScrapeStart(us, mp, allow) ==
    /\ spc = "idle"
    /\ dpc = "idle"
    /\ fpc = "idle"
    /\ urls' = us
    /\ max_pages' = mp
    /\ allow_crawl_fallback' = allow
    /\ spc' = IF us = <<>> THEN AfterLoop({}, allow, us) ELSE "strict"
    /\ UNCHANGED <<idx, results, crawl_id, polls, sfetch, ccalls, lateFetch, anyMiss, lastError,
                   strictResult, statuses,
                   plannerVars, proberVars, restVars>>

\* lines 133-137 / 153-157: record the page, return when max_pages are collected
Record(content) ==
    /\ results' = Put(results, PageKey(urls[idx]), content)
    /\ spc' = IF Collected(results', max_pages) THEN "done"
              ELSE NextUrl(results', allow_crawl_fallback, urls, idx)
    /\ idx' = IF ~Collected(results', max_pages) /\ idx < Len(urls) THEN idx + 1 ELSE idx
    /\ UNCHANGED anyMiss

\* line 159: both attempts came back empty, on to the next URL
Skip ==
    /\ results' = results
    /\ spc' = NextUrl(results, allow_crawl_fallback, urls, idx)
    /\ idx' = IF idx < Len(urls) THEN idx + 1 ELSE idx
    /\ anyMiss' = TRUE

\* lines 160-162: the call raised
Failed ==
    /\ results' = results
    /\ spc' = LoopErrorStep(results, allow_crawl_fallback, urls, idx)
    /\ idx' = IF idx < Len(urls) THEN idx + 1 ELSE idx
    /\ anyMiss' = TRUE

\* lines 119-137: the strict ScrapeUrl call for urls[idx]
ScrapeStrict(outcome) ==
    /\ spc = "strict"
    /\ sfetch' = <<ScrapeCall(sanitize_url(urls[idx]), TRUE, StrictTimeout, StrictWait)>>
    /\ strictResult' = IF outcome.raises THEN "raised"
                       ELSE IF NonBlank(extract_markdown(outcome.payload)) THEN "content"
                       ELSE "empty"
    /\ lateFetch' = (lateFetch \/ Collected(results, max_pages))
    /\ lastError' = outcome.raises
    /\ IF outcome.raises THEN Failed
       ELSE IF NonBlank(extract_markdown(outcome.payload))
       THEN Record(extract_markdown(outcome.payload).v)
       ELSE /\ spc' = EmptyStrictStep(results, allow_crawl_fallback, urls, idx)
            /\ UNCHANGED <<results, idx, anyMiss>>
    /\ UNCHANGED <<urls, max_pages, allow_crawl_fallback, crawl_id, polls, ccalls, statuses,
                   plannerVars, proberVars, restVars>>

\* lines 140-159: the retry with relaxed settings
ScrapeRelaxed(outcome) ==
    /\ spc = "relaxed"
    /\ sfetch' = Append(sfetch, ScrapeCall(sanitize_url(urls[idx]), FALSE, RelaxedTimeout,
                                           RelaxedWait))
    /\ lateFetch' = (lateFetch \/ Collected(results, max_pages))
    /\ lastError' = outcome.raises
    /\ IF outcome.raises THEN Failed
       ELSE IF NonBlank(extract_markdown(outcome.payload))
       THEN Record(extract_markdown(outcome.payload).v)
       ELSE Skip
    /\ UNCHANGED <<urls, max_pages, allow_crawl_fallback, crawl_id, polls, ccalls,
                   strictResult, statuses, plannerVars, proberVars, restVars>>

\* lines 172-188: start the crawl and read its identifier
CrawlStart(outcome) ==
    /\ spc = "crawl_start"
    /\ ccalls' = Append(ccalls, "Firecrawl.CrawlWebsite")
    /\ lastError' = outcome.raises
    /\ IF outcome.raises
       THEN /\ spc' = CrawlErrorStep
            /\ crawl_id' = crawl_id
       ELSE /\ crawl_id' = CrawlIdOf(outcome.payload)
            /\ spc' = IF Truthy(crawl_id') THEN "crawl_status" ELSE "done"
    /\ UNCHANGED <<urls, max_pages, allow_crawl_fallback, idx, results, polls, sfetch,
                   lateFetch, anyMiss, strictResult, statuses, plannerVars, proberVars,
                   restVars>>

\* lines 191-202: one round of the status poll
CrawlStatus(outcome) ==
    /\ spc = "crawl_status"
    /\ ccalls' = Append(ccalls, "Firecrawl.GetCrawlStatus")
    /\ lastError' = outcome.raises
    /\ polls' = polls + 1
    /\ statuses' = Append(statuses, IF outcome.raises THEN Raised ELSE StatOf(outcome.payload))
    /\ spc' = IF outcome.raises THEN CrawlErrorStep
              ELSE IF Terminal(StatOf(outcome.payload)) \/ polls' >= PollAttempts THEN "crawl_data"
              ELSE "crawl_status"
    /\ UNCHANGED <<urls, max_pages, allow_crawl_fallback, idx, results, crawl_id, sfetch,
                   lateFetch, anyMiss, strictResult, plannerVars, proberVars, restVars>>

\* lines 204-241: fetch the crawled pages and pick from them
CrawlFetch(outcome) ==
    /\ spc = "crawl_data"
    /\ ccalls' = Append(ccalls, "Firecrawl.GetCrawlData")
    /\ lastError' = outcome.raises
    /\ results' = IF outcome.raises THEN results ELSE CrawlResults(outcome.payload, results)
    /\ spc' = IF outcome.raises THEN CrawlErrorStep ELSE "done"
    /\ UNCHANGED <<urls, max_pages, allow_crawl_fallback, idx, crawl_id, polls, sfetch,
                   lateFetch, anyMiss, strictResult, statuses, plannerVars, proberVars,
                   restVars>>

NextScrape ==
    \/ \E us \in UrlLists, mp \in MaxPagesInputs, allow \in BOOLEAN : ScrapeStart(us, mp, allow)
    \/ \E o \in ScrapeOutcomes : ScrapeStrict(o)
    \/ \E o \in ScrapeOutcomes : ScrapeRelaxed(o)
    \/ \E o \in CrawlStartOutcomes : CrawlStart(o)
    \/ \E o \in CrawlStatusOutcomes : CrawlStatus(o)
    \/ \E o \in CrawlDataOutcomes : CrawlFetch(o)

(***************************************************************************)
(* Actions of ArcadeToolExecutor.execute                                   *)
(***************************************************************************)
\* lines 14-22: enter the timed block and invoke client.tools.execute in a thread
ExecuteCall(st) ==
    /\ epc \in {"idle", "returned", "raised"}
    /\ dpc = "idle" /\ fpc = "idle" /\ spc = "idle"
    /\ Len(sink) < MaxEvents
    /\ epc' = "gateway"
    /\ estep' = st[1]
    /\ etool' = st[2]
    /\ sinkBase' = Len(sink)
    /\ gatewayCalls' = 1
    /\ gatewayError' = NoError
    /\ UNCHANGED <<sink, eresult, plannerVars, proberVars, scrapeVars, otherVars>>

\* lines 23-35 and _Timer.__exit__: the gateway call comes back or raises
ExecuteReturn(outcome) ==
    /\ epc = "gateway"
    /\ gatewayError' = outcome.error
    /\ IF outcome.raises
       THEN /\ sink' = SinkAfterError(sink, estep, etool, outcome.error)
            /\ eresult' = Reraised(outcome.error)
            /\ epc' = "raised"
       ELSE /\ sink' = SinkAfterOk(sink, estep, etool)
            /\ eresult' = PayloadOf(outcome.res)
            /\ epc' = "returned"
    /\ UNCHANGED <<estep, etool, sinkBase, gatewayCalls, plannerVars, proberVars, scrapeVars,
                 otherVars>>

NextExec ==
    \/ \E st \in ExecSteps : ExecuteCall(st)
    \/ \E o \in GatewayOutcomes : ExecuteReturn(o)

(***************************************************************************)
(* utils/validators.py: each function applied to the argument              *)
(***************************************************************************)
\* is_safe_domain(vin)
CallIsSafeDomain ==
    /\ vfn = ""
    /\ vfn' = "is_safe_domain"
    /\ vsafe' = is_safe_domain(vin)
    /\ UNCHANGED <<vin, vurl, vurl2, plannerVars, proberVars, scrapeVars, execVars,
                   extractVars, researchVars, emailVars>>

\* ensure_https(vin)
CallEnsureHttps ==
    /\ vfn = ""
    /\ vfn' = "ensure_https"
    /\ vurl' = ensure_https(vin)
    /\ UNCHANGED <<vin, vsafe, vurl2, plannerVars, proberVars, scrapeVars, execVars,
                   extractVars, researchVars, emailVars>>

\* sanitize_url(vin)
CallSanitizeUrl ==
    /\ vfn = ""
    /\ vfn' = "sanitize_url"
    /\ vurl' = sanitize_url(vin)
    /\ UNCHANGED <<vin, vsafe, vurl2, plannerVars, proberVars, scrapeVars, execVars,
                   extractVars, researchVars, emailVars>>

\* sanitize_url applied to the URL that sanitize_url returned
CallSanitizeUrlAgain ==
    /\ vfn = "sanitize_url"
    /\ vfn' = "sanitize_url twice"
    /\ vurl2' = sanitize_url(vurl)
    /\ UNCHANGED <<vin, vsafe, vurl, plannerVars, proberVars, scrapeVars, execVars,
                   extractVars, researchVars, emailVars>>

NextValidators ==
    \/ CallIsSafeDomain
    \/ CallEnsureHttps
    \/ CallSanitizeUrl
    \/ CallSanitizeUrlAgain

(***************************************************************************)
(* FirecrawlTool._extract_markdown applied to the argument                 *)
(***************************************************************************)
CallExtractMarkdown ==
    /\ ~xdone
    /\ xdone' = TRUE
    /\ xout' = extract_markdown(xin)
    /\ UNCHANGED <<xin, plannerVars, proberVars, scrapeVars, execVars, valVars, researchVars,
                   emailVars>>

NextExtract == CallExtractMarkdown

(***************************************************************************)
(* WebResearcher.research_company, one action per page request             *)
(***************************************************************************)
\* lines 19-27 and 63-80: the name, the empty search results, the loop's initial state
ResearchStart(d) ==
    /\ rpc \in {"idle", "returned", "raised"}
    /\ dpc = "idle" /\ fpc = "idle" /\ spc = "idle"
    /\ company_domain' = d
    /\ company_name' = domain_to_company_name(d)
    /\ page' = 1
    /\ attempts' = 0
    /\ successful_scrapes' = 0
    /\ scraped_content' = {}
    /\ requested' = <<>>
    /\ rerror' = ""
    /\ structured_info' = <<>>
    /\ rpc' = "scrape"
    /\ UNCHANGED <<plannerVars, proberVars, scrapeVars, execVars, valVars, extractVars,
                   emailVars>>

\* lines 82-171: one round of the loop over pages_to_scrape
ResearchFetch(resp) ==
    /\ rpc = "scrape"
    /\ requested' = Append(requested, PagesToScrape(company_domain)[page])
    /\ attempts' = attempts + 1
    /\ scraped_content' =
           IF Usable(resp, PagesToScrape(company_domain)[page])
           THEN Put(scraped_content, PageKey(PagesToScrape(company_domain)[page]),
                    CleanText(resp, PagesToScrape(company_domain)[page]))
           ELSE scraped_content
    /\ successful_scrapes' =
           IF Usable(resp, PagesToScrape(company_domain)[page]) THEN successful_scrapes + 1
           ELSE successful_scrapes
    /\ page' = page + 1
    /\ rpc' = IF LoopEnds(page', attempts', successful_scrapes') THEN "analyze" ELSE "scrape"
    /\ UNCHANGED <<company_domain, company_name, rerror, structured_info,
                   plannerVars, proberVars, scrapeVars, execVars, valVars, extractVars,
                   emailVars>>

\* lines 30-38 and 176-191: _analyze_company_data and the WebResearch record
ResearchAnalyze ==
    /\ rpc = "analyze"
    /\ IF DataclassAccepts(CompanyInfoFields, AnalyzeKeywords)
       THEN /\ structured_info' = <<MissionOf(scraped_content), <<>>>>
            /\ rerror' = ""
            /\ rpc' = "returned"
       ELSE /\ structured_info' = <<>>
            /\ rerror' = "TypeError"
            /\ rpc' = "raised"
    /\ UNCHANGED <<company_domain, company_name, page, attempts, successful_scrapes,
                   scraped_content, requested,
                   plannerVars, proberVars, scrapeVars, execVars, valVars, extractVars,
                   emailVars>>

NextResearch ==
    \/ \E d \in ResearchDomains : ResearchStart(d)
    \/ \E resp \in Responses : ResearchFetch(resp)
    \/ ResearchAnalyze

(***************************************************************************)
(* agents/email_analyzer.py: _extract_content_from_thread                  *)
(***************************************************************************)
\* from agents.email_analyzer import _extract_content_from_thread
ImportExtractContent ==
    /\ timport = ""
    /\ timport' = IF "_extract_content_from_thread" \in ModuleNames THEN "imported"
                  ELSE "ImportError"
    /\ UNCHANGED <<tdone, thread_data, tcontent, plannerVars, proberVars, scrapeVars, execVars,
                   valVars, extractVars, researchVars>>

\* EmailAnalyzer._extract_content_from_thread(thread_data), called as a method
CallExtractContent ==
    /\ ~tdone
    /\ tdone' = TRUE
    /\ tcontent' = extract_content_from_thread(thread_data)
    /\ UNCHANGED <<timport, thread_data, plannerVars, proberVars, scrapeVars, execVars,
                   valVars, extractVars, researchVars>>

NextEmail ==
    \/ ImportExtractContent
    \/ CallExtractContent

Next ==
    \/ NextDiscover \/ NextProbe \/ NextScrape \/ NextExec \/ NextValidators \/ NextExtract
    \/ NextResearch \/ NextEmail

Spec == Init /\ [][Next]_vars
SpecDiscover == Init /\ [][NextDiscover]_vars
\* the site-map prober and the scrape engine on their own: a FirecrawlTool, no planner
InitTool == Init /\ firecrawl.prober = "tool" /\ ~debug

SpecProbe == InitTool /\ [][NextProbe]_vars
SpecScrape == InitTool /\ [][NextScrape]_vars
SpecExec == InitTool /\ [][NextExec]_vars
\* the validators on every argument of ValidatorInputs
InitValidators ==
    /\ InitObjects /\ callsLeft = 1 /\ firecrawl.prober = "tool" /\ ~debug
    /\ vin \in ValidatorInputs /\ xin = NonePayload /\ thread_data = NoThread
SpecValidators == InitValidators /\ [][NextValidators]_vars
\* _extract_markdown on every payload of ExtractPayloads
InitExtract ==
    /\ InitObjects /\ callsLeft = 1 /\ firecrawl.prober = "tool" /\ ~debug
    /\ vin = "" /\ xin \in ExtractPayloads /\ thread_data = NoThread
SpecExtract == InitExtract /\ [][NextExtract]_vars
SpecResearch == InitTool /\ [][NextResearch]_vars
\* _extract_content_from_thread on every thread of Threads
InitEmail ==
    /\ InitObjects /\ callsLeft = 1 /\ firecrawl.prober = "tool" /\ ~debug
    /\ vin = "" /\ xin = NonePayload /\ thread_data \in Threads
SpecEmail == InitEmail /\ [][NextEmail]_vars
\* several discover_urls calls, one after the other, on one planner with a gateway
InitRepeat ==
    /\ InitObjects /\ callsLeft = MaxCalls /\ firecrawl.prober = "tool" /\ firecrawl.hasExec
    /\ vin = "" /\ xin = NonePayload /\ thread_data = NoThread
SpecRepeat == InitRepeat /\ [][NextDiscover]_vars
(***************************************************************************)
(* Properties of the discovery planner                                     *)
(***************************************************************************)
NoDups(seq) == \A i, j \in 1..Len(seq) : i # j => seq[i] # seq[j]

\* the first min(n, Len(seq)) elements of seq
IsFirst(n, seq, sub) ==
    /\ Len(sub) = Min(n, Len(seq))
    /\ \A i \in 1..Len(sub) : sub[i] = seq[i]

\* the host a domain argument names: the argument without scheme, path and case
HostOfLowered(d0) ==
    IF StartsWith(d0, "http://") \/ StartsWith(d0, "https://") THEN NetlocOf(d0) ELSE d0
DomainHost(d) == HostOfLowered(LowerStr(Strip(d)))
DomainRoot(d) == "https://" \o DomainHost(d)

LastCallIs(op) == calls # <<>> /\ calls[Len(calls)].op = op

\* C1: discover_urls on a domain that is_safe_domain rejects returns the empty
\* list without raising and calls neither the site-map prober, nor the search
\* tool, nor the ranking step.
C1_UnsafeDomainRejected ==
    (dpc # "idle" /\ ~is_safe_domain(domain))
        => (dpc = "done" /\ result = <<>> /\ calls = <<>>)

C1_Witness == dpc = "done" /\ domain = "exa mple.com" /\ result = <<>>

\* C2: when the search tool call of discover_urls raises, discover_urls does
\* not raise: no run ends in an exception right after a search call.
C2_SearchFailureContained == LastCallIs("search") => dpc # "raised"

IsRelative(u) == StartsWith(u, "/") /\ ~StartsWith(u, "//")

SearchItems == s1 \o s2

TeamPick == Reply("object", Str("/about"), Str("/team"), None, Str(""), None)

C3_ScenarioGiven ==
    /\ dpc = "done"
    /\ domain = "example.com"
    /\ mapped = <<"https://example.com/about">>
    /\ SearchItems # <<>>
    /\ \A i \in 1..Len(SearchItems) : EntryLink(SearchItems[i]) = Str("/team")
    /\ rank_reply = TeamPick

\* C3: with a prober that returns https://example.com/about, a search that
\* returns the relative link /team and a ranking that picks /about and /team,
\* discover_urls("example.com") returns exactly https://example.com/about and
\* https://example.com/team; in every run each relative pick and each relative
\* search link is resolved against the root of the domain, and every returned
\* URL starts with https://.
C3_RelativeLinksResolved ==
    /\ C3_ScenarioGiven
         => result = <<"https://example.com/about", "https://example.com/team">>
    /\ dpc = "done" =>
         /\ \A i \in 1..Len(result) : StartsWith(result[i], "https://")
         /\ \A i \in 1..Len(Chosen(llm_select(rank_reply))) :
              IsRelative(Chosen(llm_select(rank_reply))[i].v) =>
                /\ \E k \in 1..Len(out) : StartsWith(out[k], DomainRoot(domain) \o "/")
                /\ AllIn(Chosen(llm_select(rank_reply))[i].v, SafePathChars) =>
                     DomainRoot(domain) \o Chosen(llm_select(rank_reply))[i].v \in SeqToSet(out)
         /\ \A i \in 1..Len(SearchItems) :
              (/\ IsStr(EntryLink(SearchItems[i]))
               /\ IsRelative(EntryLink(SearchItems[i]).v)
               /\ AllIn(EntryLink(SearchItems[i]).v, SafePathChars)
               /\ Len(unique) < max_candidates)
                => DomainRoot(domain) \o EntryLink(SearchItems[i]).v \in SeqToSet(unique)

C3_Witness == C3_ScenarioGiven /\ debug /\ Len(result) = 2

FallbackNames == <<"", "about", "company", "team", "leadership", "careers", "jobs">>

\* the deterministic fallback set of a host: 7 distinct URLs, the homepage first
IsFallbackSet(u, root) ==
    /\ Len(u) = Len(FallbackNames)
    /\ NoDups(u)
    /\ \A i \in 1..Len(u) : StartsWith(u[i], root \o "/") /\ LastSegment(u[i]) = FallbackNames[i]

RankingFailed == rank_reply.kind \in {"raises", "notjson", "nonobject"}

C4_Given ==
    /\ dpc = "done"
    /\ domain = "acme.io"
    /\ max_candidates = DefaultMaxCandidates
    /\ mapped = <<>>
    /\ SearchItems = <<>>
    /\ RankingFailed

\* C4 as stated: for acme.io with no site-map candidates, no search results and
\* a failed ranking, the 7 fallback URLs are the candidates and the list
\* returned is the first 3 of them in their order.
C4_FirstThreeOfFallback ==
    C4_Given => (IsFallbackSet(unique, "https://acme.io") /\ IsFirst(3, unique, result) /\ Len(result) = 3)

\* C4 amended: ... the list returned is the first 3 of the 7 fallback URLs in
\* full mode and the first 2 of them in reduced (debug) mode.
C4_FirstOfFallbackByMode ==
    C4_Given =>
        /\ IsFallbackSet(unique, "https://acme.io")
        /\ IsFirst(IF debug THEN 2 ELSE 3, unique, result)
        /\ Len(result) = IF debug THEN 2 ELSE 3

C4_Witness == C4_Given /\ debug /\ Len(result) = 2

\* the ranking step returned no non-empty string for about, team or careers
NothingPicked ==
    \A p \in {llm_select(rank_reply).about, llm_select(rank_reply).team,
              llm_select(rank_reply).careers} : ~(IsStr(p) /\ p.v # "")

\* C5: when the ranking step raises, returns text that is no JSON, JSON that
\* is no object, or no non-empty string for about/team/careers, discover_urls
\* does not raise and its list before the mode truncation is the first three
\* deduplicated candidates in their order.
C5_RankingFallback ==
    /\ LastCallIs("rank") => dpc = "done"
    /\ (dpc = "done" /\ is_safe_domain(domain) /\ (RankingFailed \/ NothingPicked))
         => (NoDups(unique) /\ IsFirst(3, unique, out) /\ IsFirst(ModeLimit(debug), out, result))

C5_Witness == dpc = "done" /\ rank_reply.kind = "notjson" /\ Len(out) = 3 /\ Len(unique) > 3

\* a CandidateURL of the domain: https, the host of the domain, a path of
\* whitelisted characters, no query string and no fragment
IsCandidateUrl(u, d) ==
    /\ StartsWith(u, "https://")
    /\ NetlocOf(u) = DomainHost(d)
    /\ AllIn(AfterNetloc(u), SafePathChars)

\* C6: every URL that discover_urls returns is a CandidateURL of the input
\* domain, whatever the prober, the search tool and the ranking step answer.
C6_ResultsAreCandidateUrls ==
    dpc = "done" => \A i \in 1..Len(result) : IsCandidateUrl(result[i], domain)

(***************************************************************************)
(* Properties of the site-map prober                                       *)
(***************************************************************************)
\* C7: for a domain that is_safe_domain accepts, find_candidate_urls never
\* raises and returns a non-empty list, whatever MapWebsite returns and also
\* when it raises.
C7_ProberNeverFails ==
    (fpc # "idle" /\ is_safe_domain(fdomain))
        => (fpc # "raised" /\ (fpc = "done" => fresult # <<>>))

C7_Witness == fpc = "done" /\ foutcome.raises /\ fresult # <<>>

\* the indexes of seq that hold the first occurrence of their element
FirstIndexes(seq) == {i \in 1..Len(seq) : \A j \in 1..(i - 1) : seq[j] # seq[i]}

\* sub is a prefix of seq without its repeated elements
IsPrefixOfFirsts(sub, seq) ==
    /\ Len(sub) <= Cardinality(FirstIndexes(seq))
    /\ \A k \in 1..Len(sub) :
         \E i \in FirstIndexes(seq) :
            /\ Cardinality({j \in FirstIndexes(seq) : j < i}) = k - 1
            /\ sub[k] = seq[i]

\* C8: the list find_candidate_urls returns has no duplicates, at most 8
\* entries, and is the prefix of the seed URLs followed by the kept map links,
\* each URL at its first occurrence.
C8_MergedDedupedCapped ==
    fpc = "done" =>
        /\ NoDups(fresult)
        /\ Len(fresult) <= 8
        /\ IsPrefixOfFirsts(fresult, SeedUrls(fdomain) \o MapLinks(foutcome))
        /\ Len(fresult) = Min(8, Cardinality(FirstIndexes(SeedUrls(fdomain) \o MapLinks(foutcome))))

C8_Witness == fpc = "done" /\ Len(MapLinks(foutcome)) = 2 /\ Len(fresult) = 8

(***************************************************************************)
(* Properties of the scrape engine                                         *)
(***************************************************************************)
DistinctKeys(us) == \A i, j \in 1..Len(us) : i # j => PageKey(us[i]) # PageKey(us[j])

C9_Given ==
    /\ DistinctKeys(urls)
    /\ ~anyMiss
    /\ 1 <= max_pages
    /\ max_pages <= Len(urls)

\* C9: for URLs with pairwise distinct page keys that all yield content and
\* 1 <= maxPages <= N, scrape_markdown returns exactly maxPages entries and
\* issues no fetch once the maxPages-th page is recorded.
C9_ExactlyMaxPages ==
    /\ (spc \in {"strict", "relaxed"} /\ C9_Given) => (~lateFetch /\ Cardinality(results) < max_pages)
    /\ (spc = "done" /\ C9_Given) => (Cardinality(results) = max_pages /\ ccalls = <<>>)

C9_Witness ==
    spc = "done" /\ urls = TenUrls /\ max_pages = 2 /\ ~anyMiss /\ Cardinality(results) = 2

C10_Step ==
    lastError' =>
        /\ results' = results
        /\ spc \in {"strict", "relaxed"} =>
             IF idx < Len(urls) THEN spc' = "strict" /\ idx' = idx + 1
             ELSE spc' \in {"done", "crawl_start"}
        /\ spc \in {"crawl_start", "crawl_status", "crawl_data"} => spc' = "done"

\* C10: scrape_markdown never raises because of an exception of the fetch
\* adapter: an exception on one URL keeps the recorded pages and goes on with
\* the next URL, and an exception in the crawl fallback returns the mapping.
C10_FetchErrorsContained == [](spc # "raised") /\ [][C10_Step]_vars

C10_Witness == lastError /\ spc = "strict" /\ idx > 1 /\ results # {}

\* the site root: a URL whose path is empty or a single slash
IsSiteRoot(u) == PathOf(u) \in {"", "/"}

\* the key the page of u is to be filed under
ExpectedKey(u) == IF IsSiteRoot(u) THEN "home" ELSE LastSegment(u)

\* C11: every page the per-URL loop of scrape_markdown records is stored under
\* the final path segment of its URL, and under "home" when the URL is the site
\* root, with or without a trailing slash.
C11_RootPageKeyedHome ==
    (spc # "idle" /\ ccalls = <<>>)
        => \A k \in Keys(results) : \E i \in 1..Len(urls) : k = ExpectedKey(urls[i])

(***************************************************************************)
(* Properties of the tool executor                                         *)
(***************************************************************************)
ExecuteEnded == epc \in {"returned", "raised"}

\* C12: each call of ArcadeToolExecutor.execute appends exactly one LogEvent to
\* the sink: with outcome "ok" when the gateway call succeeds, with outcome
\* "error:<exception kind>" when it raises.
C12_OneEventPerCall ==
    ExecuteEnded =>
        /\ Len(sink) = sinkBase + 1
        /\ sink[Len(sink)].outcome =
             IF epc = "returned" THEN "ok" ELSE "error:" \o gatewayError.name

\* C13: when the gateway call raises, execute has invoked the gateway exactly
\* once and the exception the gateway raised is the one that reaches the caller.
C13_NoRetrySameException ==
    (ExecuteEnded /\ gatewayError # NoError)
        => (epc = "raised" /\ gatewayCalls = 1 /\ eresult = gatewayError)

C13_Witness == epc = "raised" /\ eresult = Error("TimeoutError", "timed out") /\ sinkBase > 0

(***************************************************************************)
(* C14: is_safe_domain against the hostname grammar and the unsafe         *)
(* characters                                                              *)
(***************************************************************************)
\* s = h.t with h a non-empty run of letters, digits, dots and hyphens and t at least
\* two letters
MatchesHostnameGrammar(s) ==
    \E k \in 1..Len(s) :
        /\ CharAt(s, k) = "."
        /\ k > 1
        /\ Len(s) - k >= 2
        /\ \A j \in 1..(k - 1) : CharAt(s, j) \in HostChars
        /\ \A j \in (k + 1)..Len(s) : CharAt(s, j) \in Letters

HasUnsafeChar(s) == \E j \in 1..Len(s) : CharAt(s, j) \in {" ", "\\", "\"", "'"}

\* C14: is_safe_domain is true for every string of the hostname grammar and false for
\* every string that holds a space, a backslash or a quote, scheme and path included
C14_SafeDomainContract ==
    vfn = "is_safe_domain" =>
        /\ MatchesHostnameGrammar(vin) => vsafe
        /\ HasUnsafeChar(vin) => ~vsafe

(***************************************************************************)
(* C15: sanitize_url applied twice                                         *)
(***************************************************************************)
\* C15: sanitize_url(sanitize_url(x)) = sanitize_url(x) for every input x
C15_SanitizeIdempotent == vfn = "sanitize_url twice" => vurl2 = vurl

(***************************************************************************)
(* C16: ensure_https                                                       *)
(***************************************************************************)
\* r is what the four rules give for the input t
EnsuredFrom(t, r) ==
    /\ ~StartsWith(r, "http://")
    /\ StartsWith(t, "http://") => r = "https://" \o SubSeq(t, 8, Len(t))
    /\ StartsWith(t, "https://") => r = t
    /\ t = "" => r = ""
    /\ (t # "" /\ ~StartsWith(t, "http://") /\ ~StartsWith(t, "https://")) => r = "https://" \o t

\* s[i..j] is s without its leading and trailing whitespace
IsTrim(s, i, j) ==
    /\ j >= i - 1
    /\ \A k \in 1..(i - 1) : CharAt(s, k) \in Whitespace
    /\ \A k \in (j + 1)..Len(s) : CharAt(s, k) \in Whitespace
    /\ j >= i => (CharAt(s, i) \notin Whitespace /\ CharAt(s, j) \notin Whitespace)

\* C16 as stated: the four rules on the input as given; an https:// input comes back
\* unchanged
C16_EnsureHttpsAsGiven == vfn = "ensure_https" => EnsuredFrom(vin, vurl)

\* C16: ensure_https never returns a string that starts with http://, and the four rules
\* hold for the input without its surrounding whitespace
C16_EnsureHttpsTrimmed ==
    vfn = "ensure_https" =>
        \E i \in 1..(Len(vin) + 1), j \in 0..Len(vin) :
            IsTrim(vin, i, j) /\ EnsuredFrom(SubSeq(vin, i, j), vurl)

C16_Witness ==
    vfn = "ensure_https" /\ vin = "https://example.com " /\ vurl = "https://example.com"

(***************************************************************************)
(* C17: the priority order of _extract_markdown                            *)
(***************************************************************************)
IsNonBlankString(val) ==
    val.t = "str" /\ \E k \in 1..Len(val.v) : CharAt(val.v, k) \notin Whitespace

\* the markdown candidates in priority order: the string payload, the top-level
\* markdown, the markdown of a data mapping, the markdown of each item of a data list
MarkdownCandidates(payload) ==
    IF payload.t = "str" THEN <<Str(payload.s)>>
    ELSE IF payload.t # "dict" THEN <<>>
    ELSE <<payload.markdown>>
         \o (IF payload.data.t = "dict" THEN <<payload.data.markdown>> ELSE <<>>)
         \o (IF payload.data.t = "list"
             THEN [i \in 1..Len(payload.data.items) |->
                     IF payload.data.items[i].isDict THEN payload.data.items[i].markdown
                     ELSE None]
             ELSE <<>>)

\* the content and text fields at top level and under a data mapping
FallbackFields(payload) ==
    IF payload.t # "dict" THEN {}
    ELSE {payload.content, payload.text}
         \cup (IF payload.data.t = "dict" THEN {payload.data.content} ELSE {})

\* C17: _extract_markdown returns the first non-blank string in priority order, a
\* non-blank content or text field when no markdown candidate is non-blank, and None
\* only when nothing is non-blank
C17_FirstNonBlankInOrder ==
    xdone =>
        IF \E i \in 1..Len(MarkdownCandidates(xin)) : IsNonBlankString(MarkdownCandidates(xin)[i])
        THEN \E i \in 1..Len(MarkdownCandidates(xin)) :
                /\ IsNonBlankString(MarkdownCandidates(xin)[i])
                /\ \A j \in 1..(i - 1) : ~IsNonBlankString(MarkdownCandidates(xin)[j])
                /\ xout = MarkdownCandidates(xin)[i]
        ELSE IF \E val \in FallbackFields(xin) : IsNonBlankString(val)
        THEN xout \in FallbackFields(xin) /\ IsNonBlankString(xout)
        ELSE xout = None

(***************************************************************************)
(* C18: research_company when no page can be fetched                       *)
(***************************************************************************)
ResearchEnded == rpc \in {"returned", "raised"}

\* a CompanyInfo: a mission string and a list of news lines
ValidCompanyInfo(info) == Len(info) = 2 /\ info[1] \in STRING /\ info[2] \in Seq(STRING)

\* C18: when every page request fails or yields no usable content, research_company
\* returns, with empty website_content and search_results and a valid CompanyInfo
C18_ResearchSurvivesOutage ==
    (ResearchEnded /\ is_safe_domain(company_domain) /\ successful_scrapes = 0) =>
        /\ rpc = "returned"
        /\ scraped_content = {}
        /\ ValidCompanyInfo(structured_info)

(***************************************************************************)
(* C19: research_company with an unsafe domain                             *)
(***************************************************************************)
\* C19: with a domain that is_safe_domain rejects, the call fails with a validation
\* error and no page request is ever issued
C19_UnsafeDomainFailsFirst ==
    (rpc # "idle" /\ ~is_safe_domain(company_domain)) =>
        /\ rpc = "raised"
        /\ rerror = "ValueError"
        /\ requested = <<>>

(***************************************************************************)
(* C20: the company name derived from the domain                           *)
(***************************************************************************)
\* C20: stripe.com gives Stripe, acme.co.uk gives Acme, jobs.example.io gives Example
C20_CompanyNames ==
    rpc # "idle" =>
        /\ company_domain = "stripe.com" => company_name = "Stripe"
        /\ company_domain = "acme.co.uk" => company_name = "Acme"
        /\ company_domain = "jobs.example.io" => company_name = "Example"

(***************************************************************************)
(* C21: the content of an email thread                                     *)
(***************************************************************************)
\* the ASCII characters of codes 32 to 95 and of codes 97 to 126
AsciiLow == " !\"#$%&'()*+,-./" \o Digits \o ":;<=>?@" \o UpperAlpha \o "[\\]^_"
AsciiHigh == LowerAlpha \o "{|}~"
B64Chars == UpperAlpha \o LowerAlpha \o Digits \o "-_"

Chr(n) == IF n <= 95 THEN CharAt(AsciiLow, n - 31) ELSE CharAt(AsciiHigh, n - 96)
Sextet(c) == (CHOOSE i \in 1..Len(B64Chars) : CharAt(B64Chars, i) = c) - 1
\* the number written by the first n base64 digits of s, n from 2 to 4
Sextets(s, n) ==
    Sextet(CharAt(s, n)) + 64 * Sextet(CharAt(s, n - 1))
    + (IF n >= 3 THEN 4096 * Sextet(CharAt(s, n - 2)) ELSE 0)
    + (IF n >= 4 THEN 262144 * Sextet(CharAt(s, n - 3)) ELSE 0)

RECURSIVE B64UrlDecode(_)
\* the text of an unpadded base64url string of ASCII text
B64UrlDecode(s) ==
    IF Len(s) >= 4
    THEN Chr(Sextets(s, 4) \div 65536) \o Chr((Sextets(s, 4) \div 256) % 256)
         \o Chr(Sextets(s, 4) % 256) \o B64UrlDecode(SubSeq(s, 5, Len(s)))
    ELSE IF Len(s) = 3
    THEN Chr(Sextets(s, 3) \div 1024) \o Chr((Sextets(s, 3) \div 4) % 256)
    ELSE IF Len(s) = 2 THEN Chr(Sextets(s, 2) \div 16)
    ELSE ""

\* part i is the first text/plain part of the message that carries data
IsFirstPlainPart(m, i) ==
    /\ m.parts[i].mimeType = "text/plain" /\ m.parts[i].data.t = "str" /\ m.parts[i].data.v # ""
    /\ \A j \in 1..(i - 1) :
          ~(m.parts[j].mimeType = "text/plain" /\ m.parts[j].data.t = "str"
            /\ m.parts[j].data.v # "")

\* the message has a snippet and nothing else
OnlySnippet(m) == m.snippet.t = "str" /\ m.snippet.v # "" /\ m.parts = <<>> /\ m.content = None

\* C21: _extract_content_from_thread can be imported from agents.email_analyzer, returns
\* the decoded text of the first message's text/plain part when there is one, and the
\* snippet of a message that has only a snippet
C21_DecodedPlainTextOrSnippet ==
    /\ timport # "ImportError"
    /\ (tdone /\ thread_data.messages # <<>>) =>
          /\ \A i \in 1..Len(thread_data.messages[1].parts) :
                IsFirstPlainPart(thread_data.messages[1], i) =>
                    tcontent = Str(B64UrlDecode(thread_data.messages[1].parts[i].data.v))
          /\ OnlySnippet(thread_data.messages[1]) => tcontent = thread_data.messages[1].snippet

(***************************************************************************)
(* C22: the ScrapeUrl calls of one URL                                     *)
(***************************************************************************)
IsStrictCall(c) == c.only_main_content /\ c.timeout = StrictTimeout /\ c.wait_for = StrictWait
IsRelaxedCall(c) ==
    ~c.only_main_content /\ c.timeout > StrictTimeout /\ c.wait_for > StrictWait

\* C22: a URL gets at most two ScrapeUrl calls, the strict one first; the relaxed one is
\* issued once, exactly when the strict call returned without content, and never after
\* a strict call that gave content or raised
C22_RelaxedOnlyAfterEmptyStrict ==
    /\ Len(sfetch) <= 2
    /\ sfetch # <<>> =>
          /\ IsStrictCall(sfetch[1])
          /\ \E k \in {idx - 1, idx} \cap (1..Len(urls)) : sfetch[1].url = sanitize_url(urls[k])
    /\ Len(sfetch) = 2 =>
          /\ strictResult = "empty"
          /\ IsRelaxedCall(sfetch[2])
          /\ sfetch[2].url = sfetch[1].url
    /\ strictResult \in {"content", "raised"} => Len(sfetch) = 1
    /\ (strictResult = "empty" /\ spc # "relaxed") => Len(sfetch) = 2

C22_Witness ==
    /\ Len(sfetch) = 2 /\ strictResult = "empty" /\ spc = "strict" /\ idx = 2
    /\ results # {}

(***************************************************************************)
(* C23: the polling of the crawl fallback                                  *)
(***************************************************************************)
IsTerminalStatus(val) ==
    val.t = "str" /\ LowerStr(val.v) \in {"completed", "failed", "cancelled"}

\* n tool names, all GetCrawlStatus
StatusCalls(n) == [i \in 1..n |-> "Firecrawl.GetCrawlStatus"]

\* at most 5 status calls, and only the last one can have reported a terminal status
PollingBounded ==
    /\ Len(statuses) <= 5
    /\ \A i \in 1..(Len(statuses) - 1) : ~IsTerminalStatus(statuses[i])

CrawlEnded == spc = "done" /\ ccalls # <<>>

\* no crawl identifier: only the start call was made and the mapping is empty
NoCrawlId == crawl_id = None /\ ccalls = <<"Firecrawl.CrawlWebsite">> /\ results = {}

\* C23 as stated: with a crawl identifier there are 1 to 5 status calls, none after a
\* terminal status, and then one GetCrawlData call; without one, neither tool is called
C23_PollThenFetch ==
    /\ PollingBounded
    /\ CrawlEnded =>
          IF Truthy(crawl_id)
          THEN /\ Len(statuses) >= 1
               /\ ccalls = <<"Firecrawl.CrawlWebsite">> \o StatusCalls(Len(statuses))
                           \o <<"Firecrawl.GetCrawlData">>
          ELSE NoCrawlId

\* C23: as above, except that a status call that raises ends the fallback at once: no
\* further status call and no GetCrawlData call follow it
C23_PollThenFetchUnlessRaised ==
    /\ PollingBounded
    /\ \A i \in 1..(Len(statuses) - 1) : statuses[i] # Raised
    /\ CrawlEnded =>
          IF Truthy(crawl_id)
          THEN /\ Len(statuses) >= 1
               /\ ccalls = <<"Firecrawl.CrawlWebsite">> \o StatusCalls(Len(statuses))
                           \o (IF statuses[Len(statuses)] = Raised THEN <<>>
                               ELSE <<"Firecrawl.GetCrawlData">>)
          ELSE NoCrawlId

\* the five attempts ran out without a terminal status and the data were fetched
C23_Witness ==
    /\ CrawlEnded /\ Len(statuses) = 5 /\ ~IsTerminalStatus(statuses[5])
    /\ statuses[5] # Raised /\ ccalls[Len(ccalls)] = "Firecrawl.GetCrawlData"

(***************************************************************************)
(* C24: when the crawl fallback starts                                     *)
(***************************************************************************)
\* the loop has handled its last URL: the strict call was made, and the relaxed one too
\* when the strict call came back empty
LastUrlHandled ==
    /\ urls # <<>> /\ idx = Len(urls)
    /\ sfetch # <<>> /\ sfetch[1].url = sanitize_url(urls[Len(urls)])
    /\ strictResult = "empty" => Len(sfetch) = 2

\* C24: a crawl, status or data call is issued only with allow_crawl_fallback and a
\* non-empty URL list, the first of them is CrawlWebsite, and it is issued when every
\* URL has been handled and the mapping is still empty
C24_CrawlOnlyWhenNothingScraped ==
    [][ccalls' # <<>> =>
          /\ allow_crawl_fallback /\ urls # <<>>
          /\ ccalls'[1] = "Firecrawl.CrawlWebsite"
          /\ ccalls = <<>> => (results = {} /\ LastUrlHandled)]_vars

C24_Witness ==
    /\ ccalls = <<"Firecrawl.CrawlWebsite">> /\ Len(urls) = 3 /\ results = {}
    /\ strictResult = "raised"

(***************************************************************************)
(* C29: the size of the mapping returned by scrape_markdown                *)
(***************************************************************************)
\* C29: for every input the mapping that scrape_markdown returns has at most max_pages
\* entries
C29_AtMostMaxPages == spc = "done" => Cardinality(results) <= max_pages

(***************************************************************************)
(* C28: find_candidate_urls and the MapWebsite response                    *)
(***************************************************************************)
\* the homepage and the first seven key pages of the base URL b
FirstEightSeeds(b) ==
    <<b, b \o "/about", b \o "/about-us", b \o "/our-story", b \o "/company", b \o "/team",
      b \o "/people", b \o "/leadership">>

\* a MapWebsite call that raises
MapRaises == [payload |-> [t |-> "none", links |-> NoList, data |-> NoList], raises |-> TRUE]

\* C28: on a safe domain the list returned by find_candidate_urls is the first 8 seed
\* URLs whatever MapWebsite answered, the same list as when the MapWebsite call raises
C28_MapResponseIrrelevant ==
    (fpc = "done" /\ is_safe_domain(fdomain)) =>
        /\ fresult = FirstEightSeeds(ensure_https(fdomain))
        /\ ~find_candidate_urls(fdomain, MapRaises).raised
        /\ find_candidate_urls(fdomain, MapRaises).value = fresult

C28_Witness ==
    /\ fpc = "done" /\ fdomain = " example.com " /\ Len(MapLinks(foutcome)) = 2
    /\ fresult[8] = "https://example.com/leadership"

(***************************************************************************)
(* C27: the deterministic fallback paths                                   *)
(***************************************************************************)
\* the tools produced no candidate for the domain of a finished run
NoToolCandidates ==
    /\ dpc = "done" /\ is_safe_domain(domain) /\ max_candidates = DefaultMaxCandidates
    /\ Candidates(SiteOf(domain), mapped, s1, s2) = <<>>

\* C27: an empty candidate list is replaced by exactly 7 distinct URLs, the homepage and
\* https://<host>/about, /company, /team, /leadership, /careers, /jobs, each with a single
\* slash between the host and the path
C27_SevenFallbackUrls ==
    NoToolCandidates =>
        /\ Len(unique) = 7
        /\ NoDups(unique)
        /\ unique[1] \in {DomainRoot(domain), DomainRoot(domain) \o "/"}
        /\ \A i \in 2..7 : unique[i] = DomainRoot(domain) \o "/" \o FallbackNames[i]

(***************************************************************************)
(* C25: the external calls of one discover_urls run                        *)
(***************************************************************************)
CallOps == [i \in 1..Len(calls) |-> calls[i].op]

RunEnded == dpc \in {"done", "raised"}

\* every search call asks for 5 results; the full mode asks for the about/team theme
\* first and for the careers/jobs theme second
SearchCallsAsStated ==
    \A i \in 1..Len(calls) :
        calls[i].op = "search" =>
            /\ calls[i].num = 5
            /\ (~debug /\ i = 2) =>
                   calls[i].query = "site:" \o SiteOf(domain) \o " (about OR company OR team OR leadership) -blog -press"
            /\ (~debug /\ i = 3) =>
                   calls[i].query = "site:" \o SiteOf(domain) \o " (careers OR jobs) -blog -press"

\* C25: a run of discover_urls on a safe domain calls the site-map prober exactly once,
\* then the search tool exactly once (reduced mode) or exactly twice (full mode), then the
\* ranking step exactly once
C25_FixedCallOrder ==
    (RunEnded /\ is_safe_domain(domain)) =>
        /\ CallOps = IF debug THEN <<"map", "search", "rank">>
                     ELSE <<"map", "search", "search", "rank">>
        /\ SearchCallsAsStated

(***************************************************************************)
(* C26: the candidate list handed to the ranking step                      *)
(***************************************************************************)
\* the link of every search entry that has one, as the run recorded it
RECURSIVE LinksOf(_, _)
LinksOf(site, items) ==
    IF items = <<>> THEN <<>>
    ELSE (IF IsStr(EntryLink(Head(items)))
          THEN <<sanitize_url(Resolve(site, EntryLink(Head(items)).v))>> ELSE <<>>)
         \o LinksOf(site, Tail(items))

\* sub is seq without the later occurrences of its elements
IsDedupOf(seq, sub) ==
    /\ NoDups(sub)
    /\ SeqToSet(sub) = SeqToSet(seq)
    /\ \A i, j \in 1..Len(sub) :
          i < j => (\E k \in 1..Len(seq) :
                       /\ seq[k] = sub[i]
                       /\ \A m \in 1..Len(seq) : seq[m] = sub[j] => k < m)

ToolCandidates == mapped \o LinksOf(SiteOf(domain), s1) \o LinksOf(SiteOf(domain), s2)

\* C26: the list passed to the ranking step is the site-map candidates, the theme-1
\* search links and the theme-2 search links in that order, without the later
\* occurrences of a URL, cut to max_candidates entries (for a list that is not empty;
\* the empty list is replaced by the fallback paths first)
C26_ConcatDedupTruncate ==
    (LastCallIs("rank") /\ ToolCandidates # <<>>) =>
        \E d \in {Dedup(ToolCandidates)} :
            /\ IsDedupOf(ToolCandidates, d)
            /\ IsFirst(max_candidates, d, unique)

C26_Witness ==
    /\ LastCallIs("rank") /\ max_candidates = DefaultMaxCandidates
    /\ Len(mapped) = 8 /\ LinksOf(SiteOf(domain), s1) # <<>> /\ LinksOf(SiteOf(domain), s2) # <<>>
    /\ Len(unique) < Len(ToolCandidates) /\ Len(unique) < max_candidates

(***************************************************************************)
(* C30: the side channel after several discover_urls calls                 *)
(***************************************************************************)
\* the briefs that the call which ended last produced: those of its search results, the
\* Mapped briefs when it had none, and none at all when the call was rejected
BriefsOfThisCall ==
    IF is_safe_domain(domain) THEN SearchBriefs(mapped, s1, s2) ELSE <<>>

\* C30: after any sequence of discover_urls calls on one planner last_search_results
\* holds only briefs of the most recent call; after a call rejected for an unsafe domain
\* it does not hold the briefs of an earlier call
C30_OnlyLatestBriefs ==
    dpc = "done" => \A i \in 1..Len(last_search_results) :
                        last_search_results[i] \in SeqToSet(BriefsOfThisCall)
====
